---------------------------- MODULE Spec2Model ----------------------------
(***************************************************************************)
(* DataScrub Pro cleaning engine (src/src/utils/cleaningEngine.ts) as a    *)
(* state machine.  Text is a sequence of one-character strings; a few      *)
(* characters outside ASCII are written as atoms ("U+FEFF", "U+00C3" ...). *)
(* One run of processFile is the record  run ; its inputs are  file ,      *)
(* config  and the read-window size  chunkSize .                           *)
(***************************************************************************)
EXTENDS Integers, Sequences, FiniteSets, TLC

(***************************************************************************)
(* Characters                                                              *)
(***************************************************************************)
LF == "\n"
CR == "\r"
TAB == "\t"
QUOTE == "\""
COMMA == ","
NUL == "U+0000"
BOM == "U+FEFF"
NBSP == "U+00A0"

Upper == <<"A","B","C","D","E","F","G","H","I","J","K","L","M",
           "N","O","P","Q","R","S","T","U","V","W","X","Y","Z">>
Lower == <<"a","b","c","d","e","f","g","h","i","j","k","l","m",
           "n","o","p","q","r","s","t","u","v","w","x","y","z">>
Digits == <<"0","1","2","3","4","5","6","7","8","9">>

UpperSet == {Upper[i] : i \in 1..26}
LowerSet == {Lower[i] : i \in 1..26}
DigitSet == {Digits[i] : i \in 1..10}

\* JavaScript's \s and the characters String.prototype.trim removes
WhiteSpace == {" ", TAB, LF, CR, "\f", BOM, NBSP}

\* String.prototype.toLowerCase on one character
toLowerCaseCh(c) ==
  IF c \in UpperSet THEN Lower[CHOOSE i \in 1..26 : Upper[i] = c]
  ELSE IF c = "U+00C3" THEN "U+00E3"
  ELSE IF c = "U+00C2" THEN "U+00E2"
  ELSE c

\* String.prototype.toUpperCase on one character
toUpperCaseCh(c) ==
  IF c \in LowerSet THEN Upper[CHOOSE i \in 1..26 : Lower[i] = c]
  ELSE IF c = "U+00E3" THEN "U+00C3"
  ELSE IF c = "U+00E2" THEN "U+00C2"
  ELSE c

(***************************************************************************)
(* String primitives of the JavaScript runtime                             *)
(***************************************************************************)
toLowerCase(s) == [i \in 1..Len(s) |-> toLowerCaseCh(s[i])]

\* s.filter(keep) on characters
RECURSIVE SelectChars(_, _)
SelectChars(s, keep) ==
  IF s = <<>> THEN <<>>
  ELSE IF Head(s) \in keep THEN <<Head(s)>> \o SelectChars(Tail(s), keep)
  ELSE SelectChars(Tail(s), keep)

\* s.replace(/[set]/g, '')
RECURSIVE RemoveChars(_, _)
RemoveChars(s, drop) ==
  IF s = <<>> THEN <<>>
  ELSE IF Head(s) \in drop THEN RemoveChars(Tail(s), drop)
  ELSE <<Head(s)>> \o RemoveChars(Tail(s), drop)

\* (s.match(/c/g) || []).length
RECURSIVE CountChar(_, _)
CountChar(s, c) ==
  IF s = <<>> THEN 0
  ELSE (IF Head(s) = c THEN 1 ELSE 0) + CountChar(Tail(s), c)

Includes(s, c) == \E i \in 1..Len(s) : s[i] = c

RECURSIVE TrimStart(_)
TrimStart(s) ==
  IF s # <<>> /\ Head(s) \in WhiteSpace THEN TrimStart(Tail(s)) ELSE s

RECURSIVE TrimEnd(_)
TrimEnd(s) ==
  IF s # <<>> /\ s[Len(s)] \in WhiteSpace THEN TrimEnd(SubSeq(s, 1, Len(s) - 1)) ELSE s

\* String.prototype.trim
Trim(s) == TrimEnd(TrimStart(s))

\* s.startsWith(p) at position i (1-based)
MatchesAt(s, i, p) ==
  /\ i + Len(p) - 1 <= Len(s)
  /\ \A k \in 1..Len(p) : s[i + k - 1] = p[k]

EndsWith(s, p) == Len(p) <= Len(s) /\ MatchesAt(s, Len(s) - Len(p) + 1, p)

\* s.split(bad).join(good), bad non-empty
RECURSIVE ReplaceAll(_, _, _)
ReplaceAll(s, bad, good) ==
  IF s = <<>> THEN <<>>
  ELSE IF MatchesAt(s, 1, bad)
       THEN good \o ReplaceAll(SubSeq(s, Len(bad) + 1, Len(s)), bad, good)
       ELSE <<Head(s)>> \o ReplaceAll(Tail(s), bad, good)

\* parts.join(sep), sep a string
RECURSIVE Join(_, _)
Join(parts, sep) ==
  IF parts = <<>> THEN <<>>
  ELSE IF Len(parts) = 1 THEN parts[1]
  ELSE parts[1] \o sep \o Join(Tail(parts), sep)

\* String(n) for a natural number
RECURSIVE NatToString(_)
NatToString(n) ==
  IF n < 10 THEN <<Digits[n + 1]>>
  ELSE NatToString(n \div 10) \o <<Digits[(n % 10) + 1]>>

\* fullText.split(/\r?\n|\r/): CRLF, LF and CR each end a line
RECURSIVE SplitLinesFrom(_, _, _, _)
SplitLinesFrom(t, i, cur, acc) ==
  IF i > Len(t) THEN Append(acc, cur)
  ELSE IF t[i] = CR /\ i < Len(t) /\ t[i + 1] = LF
       THEN SplitLinesFrom(t, i + 2, <<>>, Append(acc, cur))
  ELSE IF t[i] \in {CR, LF}
       THEN SplitLinesFrom(t, i + 1, <<>>, Append(acc, cur))
  ELSE SplitLinesFrom(t, i + 1, Append(cur, t[i]), acc)

SplitLines(t) == SplitLinesFrom(t, 1, <<>>, <<>>)

\* s.replace(/\s+/g, ' ')
RECURSIVE CollapseWhitespace(_)
CollapseWhitespace(s) ==
  IF s = <<>> THEN <<>>
  ELSE IF Head(s) \in WhiteSpace
       THEN <<" ">> \o CollapseWhitespace(TrimStart(s))
       ELSE <<Head(s)>> \o CollapseWhitespace(Tail(s))

(***************************************************************************)
(* CSV parser                                                              *)
(***************************************************************************)
\* a cell that is itself wrapped in quotes loses them, lines 279-281
Unwrap(trimmed) ==
  IF trimmed # <<>> /\ Head(trimmed) = QUOTE /\ trimmed[Len(trimmed)] = QUOTE
  THEN SubSeq(trimmed, 2, Len(trimmed) - 1)
  ELSE trimmed

\* the trimming of a completed cell, lines 278-282 and 291-295
FinishCell(cell) == Unwrap(Trim(cell))

RECURSIVE parseCSVLineFrom(_, _, _, _, _, _)
parseCSVLineFrom(line, sep, i, cell, inQuotes, cells) ==
  IF i > Len(line) THEN Append(cells, FinishCell(cell))
  ELSE LET ch == line[i] IN
    IF inQuotes
    THEN IF ch = QUOTE /\ i < Len(line) /\ line[i + 1] = QUOTE
         THEN parseCSVLineFrom(line, sep, i + 2, Append(cell, QUOTE), TRUE, cells)
         ELSE IF ch = QUOTE
         THEN parseCSVLineFrom(line, sep, i + 1, cell, FALSE, cells)
         ELSE parseCSVLineFrom(line, sep, i + 1, Append(cell, ch), TRUE, cells)
    ELSE IF ch = QUOTE
         THEN parseCSVLineFrom(line, sep, i + 1, cell, TRUE, cells)
         ELSE IF ch = sep
         THEN parseCSVLineFrom(line, sep, i + 1, <<>>, FALSE, Append(cells, FinishCell(cell)))
         ELSE parseCSVLineFrom(line, sep, i + 1, Append(cell, ch), FALSE, cells)

parseCSVLine(line, sep) == parseCSVLineFrom(line, sep, 1, <<>>, FALSE, <<>>)

\* candidates in the insertion order of the counts object; the sort is stable,
\* so the first candidate with the largest count wins
Separators == <<COMMA, TAB, ";", "|">>

detectSeparator(line) ==
  LET best == CHOOSE i \in 1..4 :
                /\ \A j \in 1..4 : CountChar(line, Separators[j]) <= CountChar(line, Separators[i])
                /\ \A j \in 1..(i - 1) : CountChar(line, Separators[j]) < CountChar(line, Separators[i])
  IN Separators[best]

quoteCell(value) ==
  IF Includes(value, COMMA) \/ Includes(value, QUOTE) \/ Includes(value, LF) \/ Includes(value, CR)
  THEN <<QUOTE>> \o ReplaceAll(value, <<QUOTE>>, <<QUOTE, QUOTE>>) \o <<QUOTE>>
  ELSE value


(***************************************************************************)
(* Column names                                                            *)
(***************************************************************************)
WordChars == UpperSet \cup LowerSet \cup DigitSet \cup {"_"}

RECURSIVE StripLeadingUnderscores(_)
StripLeadingUnderscores(s) ==
  IF s # <<>> /\ Head(s) = "_" THEN StripLeadingUnderscores(Tail(s)) ELSE s

RECURSIVE StripTrailingUnderscores(_)
StripTrailingUnderscores(s) ==
  IF s # <<>> /\ s[Len(s)] = "_" THEN StripTrailingUnderscores(SubSeq(s, 1, Len(s) - 1)) ELSE s

\* s.replace(/_+/g, '_')
RECURSIVE CollapseUnderscores(_)
CollapseUnderscores(s) ==
  IF s = <<>> THEN <<>>
  ELSE IF Head(s) = "_"
       THEN <<"_">> \o CollapseUnderscores(StripLeadingUnderscores(s))
       ELSE <<Head(s)>> \o CollapseUnderscores(Tail(s))

\* the suffixes Math.random().toString(36).substring(2, 7) is drawn from here
RandomSuffixes == { <<"k","3","x","0","q">>, <<"z","7","m","1","b">> }

StripBom(s) == IF s # <<>> /\ Head(s) = BOM THEN Tail(s) ELSE s

\* s.replace(/[^a-zA-Z0-9_]/g, '_')
ReplaceNonWord(s) == [i \in 1..Len(s) |-> IF s[i] \in WordChars THEN s[i] ELSE "_"]

OrPlaceholder(lowered, rnd) == IF lowered = <<>> THEN <<"c","o","l","_">> \o rnd ELSE lowered

\* rnd is the suffix drawn for this name; it is used only when the
\* sanitized name is empty
sanitizeColumnName(name, rnd) ==
  OrPlaceholder(
    toLowerCase(CollapseUnderscores(StripTrailingUnderscores(StripLeadingUnderscores(
      ReplaceNonWord(StripBom(Trim(name))))))),
    rnd)

\* the nameCount pass over the sanitized headers, lines 696-700
RECURSIVE DedupHeadersFrom(_, _, _)
DedupHeadersFrom(hs, i, nameCount) ==
  IF i > Len(hs) THEN <<>>
  ELSE LET h == hs[i] IN
    IF h \in DOMAIN nameCount
    THEN <<h \o <<"_">> \o NatToString(nameCount[h] + 1)>>
           \o DedupHeadersFrom(hs, i + 1, [nameCount EXCEPT ![h] = @ + 1])
    ELSE <<h>> \o DedupHeadersFrom(hs, i + 1,
                    [n \in (DOMAIN nameCount) \cup {h} |-> IF n = h THEN 0 ELSE nameCount[n]])

DedupHeaders(hs) == DedupHeadersFrom(hs, 1, <<>>)

\* rawHeaders.findIndex(h => h.toLowerCase() === 'id'), 0-based, -1 when absent
FindIdIndex(hs) ==
  LET hits == {i \in 1..Len(hs) : toLowerCase(hs[i]) = <<"i","d">>} IN
  IF hits = {} THEN -1 ELSE (CHOOSE i \in hits : \A j \in hits : i <= j) - 1

\* xs.filter((_, i) => i !== k), k 0-based
RECURSIVE WithoutIndexFrom(_, _, _)
WithoutIndexFrom(xs, k, i) ==
  IF i > Len(xs) THEN <<>>
  ELSE IF i - 1 = k THEN WithoutIndexFrom(xs, k, i + 1)
  ELSE <<xs[i]>> \o WithoutIndexFrom(xs, k, i + 1)

WithoutIndex(xs, k) == WithoutIndexFrom(xs, k, 1)

(***************************************************************************)
(* Standard cell transforms                                                *)
(***************************************************************************)
EncodingFixes == <<
  <<<<"U+00C3","U+00A9">>, <<"U+00E9">>>>,
  <<<<"U+00C3","U+00A8">>, <<"U+00E8">>>>,
  <<<<"U+00C3","U+00A0">>, <<"U+00E0">>>>,
  <<<<"U+00C3","U+00A2">>, <<"U+00E2">>>>,
  <<<<"U+00C3","U+00AE">>, <<"U+00EE">>>>,
  <<<<"U+00C3","U+00B4">>, <<"U+00F4">>>>,
  <<<<"U+00C3","U+00BB">>, <<"U+00FB">>>>,
  <<<<"U+00C3","U+00A7">>, <<"U+00E7">>>>,
  <<<<"U+00C3","U+00BC">>, <<"U+00FC">>>>,
  <<<<"U+00C3","U+00B6">>, <<"U+00F6">>>>,
  <<<<"U+00C3","U+00A4">>, <<"U+00E4">>>>,
  <<<<"U+00C3","U+00B1">>, <<"U+00F1">>>>,
  <<<<"U+00E2","U+0080","U+0099">>, <<"'">>>>,
  <<<<"U+00E2","U+0080","U+009C">>, <<QUOTE>>>>,
  <<<<"U+00E2","U+0080","U+009D">>, <<QUOTE>>>>,
  <<<<"U+00E2","U+0080","U+0094">>, <<"U+2014">>>>,
  <<<<"U+00E2","U+0080","U+0093">>, <<"U+2013">>>>,
  <<<<"U+00E2","U+0080","U+00A6">>, <<"U+2026">>>>,
  <<<<"U+00C2","U+00A0">>, <<" ">>>>,
  <<<<"U+00C2","U+00B0">>, <<"U+00B0">>>>
>>

RECURSIVE ApplyFixesFrom(_, _)
ApplyFixesFrom(s, k) ==
  IF k > Len(EncodingFixes) THEN s
  ELSE ApplyFixesFrom(ReplaceAll(s, EncodingFixes[k][1], EncodingFixes[k][2]), k + 1)

fixEncodingIssues(str) == IF str = <<>> THEN str ELSE StripBom(ApplyFixesFrom(str, 1))

\* the trimWhitespace rewrite, line 799
trimWhitespaceFn(c) == Trim(CollapseWhitespace(c))

NullTokens == {
  <<"n","u","l","l">>,
  <<"N","U","L","L">>,
  <<"N","u","l","l">>,
  <<"N","/","A">>,
  <<"n","/","a">>,
  <<"N","A">>,
  <<"n","a">>,
  <<"n","o","n","e">>,
  <<"N","o","n","e">>,
  <<"N","O","N","E">>,
  <<"u","n","d","e","f","i","n","e","d">>,
  <<"U","n","d","e","f","i","n","e","d">>,
  <<"n","i","l">>,
  <<"N","I","L">>,
  <<"?">>,
  <<"#","N","/","A">>,
  <<"#","V","A","L","U","E","!">>,
  <<"#","R","E","F","!">>,
  <<"#","N","A","M","E","?">>,
  <<"#","D","I","V","/","0","!">>,
  <<"-">>,
  <<"U+2014">>
}

\* the normalizeValues test, line 804
IsNullToken(val) ==
  \/ val \in NullTokens
  \/ (Len(val) >= 2 /\ \A i \in 1..Len(val) : val[i] = ".")


(***************************************************************************)
(* Advanced cell transforms                                                *)
(***************************************************************************)
\* pattern.test(s) for a pattern that is a plain substring
Contains(s, p) == \E i \in 1..(Len(s) - Len(p) + 1) : MatchesAt(s, i, p)

\* s.replace(p, q): the first occurrence only
RECURSIVE ReplaceFirst(_, _, _)
ReplaceFirst(s, p, q) ==
  IF Len(s) < Len(p) THEN s
  ELSE IF MatchesAt(s, 1, p) THEN q \o SubSeq(s, Len(p) + 1, Len(s))
  ELSE <<Head(s)>> \o ReplaceFirst(Tail(s), p, q)

\* s.replace(/c+/g, c)
RECURSIVE CollapseRuns(_, _)
CollapseRuns(s, c) ==
  IF s = <<>> THEN <<>>
  ELSE IF Head(s) = c /\ Len(s) > 1 /\ s[2] = c THEN CollapseRuns(Tail(s), c)
  ELSE <<Head(s)>> \o CollapseRuns(Tail(s), c)

looksLikeEmail(str) == str # <<>> /\ Includes(str, "@") /\ Len(str) > 5

DomainFixes == <<
  <<<<"@","g","m","i","a","l",".","c","o","m">>, <<"@","g","m","a","i","l",".","c","o","m">>>>,
  <<<<"@","g","m","a","i",".","c","o","m">>, <<"@","g","m","a","i","l",".","c","o","m">>>>,
  <<<<"@","g","a","m","i","l",".","c","o","m">>, <<"@","g","m","a","i","l",".","c","o","m">>>>,
  <<<<"@","g","n","a","i","l",".","c","o","m">>, <<"@","g","m","a","i","l",".","c","o","m">>>>,
  <<<<"@","g","m","a","i","l",".","c","o">>, <<"@","g","m","a","i","l",".","c","o","m">>>>,
  <<<<"@","g","m","a","i","l",".","c","o","n">>, <<"@","g","m","a","i","l",".","c","o","m">>>>,
  <<<<"@","y","a","h","o","o","o",".","c","o","m">>, <<"@","y","a","h","o","o",".","c","o","m">>>>,
  <<<<"@","y","a","h","o","o",".","c","o","n">>, <<"@","y","a","h","o","o",".","c","o","m">>>>,
  <<<<"@","h","o","t","m","i","a","l",".","c","o","m">>, <<"@","h","o","t","m","a","i","l",".","c","o","m">>>>,
  <<<<"@","h","o","t","m","a","i","l",".","c","o","n">>, <<"@","h","o","t","m","a","i","l",".","c","o","m">>>>,
  <<<<"@","o","u","t","l","o","k",".","c","o","m">>, <<"@","o","u","t","l","o","o","k",".","c","o","m">>>>,
  <<<<"@","o","u","t","l","o","o","k",".","c","o","n">>, <<"@","o","u","t","l","o","o","k",".","c","o","m">>>>
>>

\* /^[^\s@]+@[^\s@]+\.[^\s@]+$/
IsEmailShape(s) ==
  /\ CountChar(s, "@") = 1
  /\ \A i \in 1..Len(s) : s[i] \notin WhiteSpace
  /\ LET at == CHOOSE i \in 1..Len(s) : s[i] = "@" IN
       /\ at > 1
       /\ \E d \in (at + 2)..(Len(s) - 1) : s[d] = "."

FirstDomainFix(cleaned) ==
  IF \E k \in 1..Len(DomainFixes) : EndsWith(cleaned, DomainFixes[k][1])
  THEN CHOOSE k \in 1..Len(DomainFixes) :
         /\ EndsWith(cleaned, DomainFixes[k][1])
         /\ \A j \in 1..(k - 1) : ~EndsWith(cleaned, DomainFixes[j][1])
  ELSE 0

\* the first typo the address ends with is rewritten at its first occurrence
FixDomain(cleaned, k) ==
  IF k = 0 THEN cleaned ELSE ReplaceFirst(cleaned, DomainFixes[k][1], DomainFixes[k][2])

FixedDomain(cleaned) == FixDomain(cleaned, FirstDomainFix(cleaned))

OrOriginal(email, fixed) == IF IsEmailShape(fixed) THEN fixed ELSE email

fixEmail(email) ==
  IF email = <<>> THEN email
  ELSE OrOriginal(email,
         FixedDomain(CollapseRuns(CollapseRuns(
           RemoveChars(Trim(toLowerCase(email)), WhiteSpace), COMMA), ".")))

PhoneChars == DigitSet \cup WhiteSpace \cup {"+", "-", ".", "(", ")"}

PhoneShape(trimmed) ==
  /\ RemoveChars(trimmed, PhoneChars) = <<>>
  /\ Len(SelectChars(trimmed, DigitSet)) >= 7
  /\ Len(SelectChars(trimmed, DigitSet)) <= 15

looksLikePhone(str) == IF str = <<>> THEN FALSE ELSE PhoneShape(Trim(str))

PhoneNames == { <<"p","h","o","n","e">>, <<"m","o","b","i","l","e">>, <<"c","e","l","l">>, <<"f","a","x">>, <<"t","e","l">>, <<"c","o","n","t","a","c","t","_","n","o">>, <<"c","o","n","t","a","c","t","_","n","u","m">>, <<"w","h","a","t","s","a","p","p">> }

isPhoneColumnName(colName) ==
  \E p \in PhoneNames : Contains(toLowerCase(colName), p)

PhoneFormat(cc, rest) ==
  cc \o <<"(">> \o SubSeq(rest, 1, 3) \o <<")", " ">> \o SubSeq(rest, 4, 6) \o <<"-">>
     \o SubSeq(rest, 7, Len(rest))

FormatDigits(phone, digits) ==
  IF Len(digits) = 10 THEN PhoneFormat(<<>>, digits)
  ELSE IF Len(digits) = 11 /\ digits[1] = "1" THEN PhoneFormat(<<"+", "1", " ">>, Tail(digits))
  ELSE IF Len(digits) >= 11
       THEN PhoneFormat(<<"+">> \o SubSeq(digits, 1, Len(digits) - 10) \o <<" ">>,
                        SubSeq(digits, Len(digits) - 9, Len(digits)))
  ELSE phone

standardizePhoneFn(phone) ==
  IF phone = <<>> THEN phone ELSE FormatDigits(phone, SelectChars(phone, DigitSet))

\* s.split(/(\s+)/): words and the whitespace runs between them, in order
RECURSIVE SplitKeepingSpaces(_, _, _)
SplitKeepingSpaces(s, cur, inSpace) ==
  IF s = <<>> THEN <<cur>>
  ELSE IF (Head(s) \in WhiteSpace) = inSpace
       THEN SplitKeepingSpaces(Tail(s), Append(cur, Head(s)), inSpace)
       ELSE <<cur>> \o SplitKeepingSpaces(Tail(s), <<Head(s)>>, ~inSpace)

TitleWord(word) ==
  IF Trim(word) = <<>> THEN word
  ELSE <<toUpperCaseCh(word[1])>> \o toLowerCase(Tail(word))

EmailNames == { <<"e","m","a","i","l">>, <<"e","_","m","a","i","l">> }
UrlNames == { <<"u","r","l">>, <<"w","e","b","s","i","t","e">>, <<"h","r","e","f">>, <<"l","i","n","k">> }
NAME == <<"n","a","m","e">>
NamePrefixes == { <<>>, <<"f","i","r","s","t">>, <<"l","a","s","t">>,
                  <<"m","i","d","d","l","e">>, <<"f","u","l","l">> }
PlaceNames == { <<"c","i","t","y">>, <<"c","o","u","n","t","r","y">>, <<"s","t","a","t","e">>,
                <<"s","t","r","e","e","t">>, <<"a","d","d","r","e","s","s">> }

\* /^(first|last|middle|full)?_?name$|^city$|^country$|^state$|^street$|^address$/i
IsTitleCaseColumn(lower) ==
  \/ lower \in PlaceNames
  \/ \E pre \in NamePrefixes : lower = pre \o NAME \/ lower = pre \o <<"_">> \o NAME

TitleCase(parts) == Join([i \in 1..Len(parts) |-> TitleWord(parts[i])], <<>>)

CaseFor(str, lower) ==
  IF \E p \in EmailNames : Contains(lower, p) THEN toLowerCase(str)
  ELSE IF \E p \in UrlNames : Contains(lower, p) THEN toLowerCase(str)
  ELSE IF IsTitleCaseColumn(lower) THEN TitleCase(SplitKeepingSpaces(str, <<>>, FALSE))
  ELSE str

normalizeCaseFn(str, columnName) ==
  IF str = <<>> THEN str ELSE CaseFor(str, toLowerCase(columnName))

ControlChars == { "U+0000", "U+0001", "U+0002", "U+0003", "U+0004", "U+0005", "U+0006", "U+0007", "U+0008", "U+000B", "\f", "U+000E", "U+000F", "U+0010", "U+0011", "U+0012", "U+0013", "U+0014", "U+0015", "U+0016", "U+0017", "U+0018", "U+0019", "U+001A", "U+001B", "U+001C", "U+001D", "U+001E", "U+001F", "U+007F" }

removeSpecialCharsFn(str) == RemoveChars(str, ControlChars)

\* str.replace(/<[^>]*>/g, '')
RECURSIVE StripTags(_)
StripTags(s) ==
  IF s = <<>> THEN <<>>
  ELSE IF Head(s) = "<" /\ Includes(s, ">")
       THEN LET close == CHOOSE j \in 1..Len(s) : s[j] = ">" /\ \A k \in 1..(j - 1) : s[k] # ">"
            IN StripTags(SubSeq(s, close + 1, Len(s)))
       ELSE <<Head(s)>> \o StripTags(Tail(s))

\* s.replace(/entity/gi, repl)
RECURSIVE ReplaceAllIgnoreCase(_, _, _)
ReplaceAllIgnoreCase(s, p, q) ==
  IF s = <<>> THEN <<>>
  ELSE IF Len(s) >= Len(p) /\ toLowerCase(SubSeq(s, 1, Len(p))) = p
       THEN q \o ReplaceAllIgnoreCase(SubSeq(s, Len(p) + 1, Len(s)), p, q)
       ELSE <<Head(s)>> \o ReplaceAllIgnoreCase(Tail(s), p, q)

Entities == <<
  <<<<"&","n","b","s","p",";">>, <<" ">>>>,
  <<<<"&","a","m","p",";">>, <<"&">>>>,
  <<<<"&","l","t",";">>, <<"<">>>>,
  <<<<"&","g","t",";">>, <<">">>>>,
  <<<<"&","q","u","o","t",";">>, <<QUOTE>>>>,
  <<<<"&","#","0","3","9",";">>, <<"'">>>> >>

RECURSIVE DecodeEntitiesFrom(_, _)
DecodeEntitiesFrom(s, k) ==
  IF k > Len(Entities) THEN s
  ELSE DecodeEntitiesFrom(ReplaceAllIgnoreCase(s, Entities[k][1], Entities[k][2]), k + 1)

removeHtmlTagsFn(str) == DecodeEntitiesFrom(StripTags(str), 1)

\* /<[^>]+>/.test(s)
HasTag(s) ==
  \E i \in 1..Len(s) : \E j \in (i + 2)..Len(s) :
     s[i] = "<" /\ s[j] = ">" /\ \A k \in (i + 1)..(j - 1) : s[k] # ">"

CurrencySymbols == {"$", "U+20AC", "U+00A3", "U+00A5", "U+20B9"}

AllDigits(s) == \A i \in 1..Len(s) : s[i] \in DigitSet

\* /^\d{1,3}(,\d{3})+$/
RECURSIVE IsGroupTail(_)
IsGroupTail(s) ==
  \/ s = <<>>
  \/ Len(s) >= 4 /\ s[1] = COMMA /\ AllDigits(SubSeq(s, 2, 4)) /\ IsGroupTail(SubSeq(s, 5, Len(s)))

IsGroupedInteger(s) ==
  \E n \in 1..3 : /\ Len(s) >= n + 4
                  /\ AllDigits(SubSeq(s, 1, n))
                  /\ IsGroupTail(SubSeq(s, n + 1, Len(s)))

\* /^\d{1,3}(,\d{3})+(\.\d+)?$/
IsGroupedNumber(s) ==
  \/ IsGroupedInteger(s)
  \/ \E d \in 1..Len(s) : /\ s[d] = "."
                          /\ IsGroupedInteger(SubSeq(s, 1, d - 1))
                          /\ d < Len(s)
                          /\ AllDigits(SubSeq(s, d + 1, Len(s)))

Ungrouped(str, cleaned) ==
  IF IsGroupedNumber(cleaned) THEN RemoveChars(cleaned, {COMMA}) ELSE str

fixNumberFormat(str) ==
  IF str = <<>> THEN str ELSE Ungrouped(str, Trim(RemoveChars(str, CurrencySymbols)))

(***************************************************************************)
(* Dates and numbers                                                       *)
(*                                                                         *)
(* new Date(str) is the host's parser.  It is modelled for the forms the   *)
(* date patterns of isValidDate admit, as V8 reads them, in a host whose   *)
(* local time zone is UTC: year-first forms are year, month, day; the      *)
(* other numeric forms are month, day, year; a month is 1..12 and a day    *)
(* 1..31, and a day past the end of its month rolls into the next month.   *)
(***************************************************************************)
DigitVal(c) == (CHOOSE i \in 1..10 : Digits[i] = c) - 1

\* parseInt(s, 10) for a string of digits
RECURSIVE ToNat(_)
ToNat(s) == IF s = <<>> THEN 0 ELSE ToNat(SubSeq(s, 1, Len(s) - 1)) * 10 + DigitVal(s[Len(s)])

RECURSIVE SplitOn(_, _, _)
SplitOn(s, c, cur) ==
  IF s = <<>> THEN <<cur>>
  ELSE IF Head(s) = c THEN <<cur>> \o SplitOn(Tail(s), c, <<>>)
  ELSE SplitOn(Tail(s), c, Append(cur, Head(s)))

IsLeap(y) == (y % 4 = 0 /\ y % 100 # 0) \/ y % 400 = 0

DaysInMonth(y, m) ==
  IF m = 2 THEN (IF IsLeap(y) THEN 29 ELSE 28)
  ELSE IF m \in {4, 6, 9, 11} THEN 30 ELSE 31

NoDate == [ok |-> FALSE, year |-> 0, month |-> 0, day |-> 0]

\* MakeDay: a day past the end of the month moves into the next month
MakeDate(y, m, d) ==
  IF m \notin 1..12 \/ d \notin 1..31 THEN NoDate
  ELSE IF d <= DaysInMonth(y, m) THEN [ok |-> TRUE, year |-> y, month |-> m, day |-> d]
  ELSE IF m = 12 THEN [ok |-> TRUE, year |-> y + 1, month |-> 1, day |-> d - 31]
  ELSE [ok |-> TRUE, year |-> y, month |-> m + 1, day |-> d - DaysInMonth(y, m)]

IsDigits(s, lo, hi) == Len(s) >= lo /\ Len(s) <= hi /\ AllDigits(s)
IsLetters(s) == s # <<>> /\ \A i \in 1..Len(s) : s[i] \in UpperSet \cup LowerSet

MonthNames == << <<"j","a","n">>, <<"f","e","b">>, <<"m","a","r">>, <<"a","p","r">>, <<"m","a","y">>, <<"j","u","n">>, <<"j","u","l">>, <<"a","u","g">>, <<"s","e","p">>, <<"o","c","t">>, <<"n","o","v">>, <<"d","e","c">> >>

MonthIndex(key) ==
  IF \E m \in 1..12 : MonthNames[m] = key THEN CHOOSE m \in 1..12 : MonthNames[m] = key ELSE 0

\* a month name is recognised by its first three letters
MonthOf(word) == IF Len(word) < 3 THEN 0 ELSE MonthIndex(toLowerCase(SubSeq(word, 1, 3)))

\* three numeric fields: year first, or month, day, year
NumericFields(parts) ==
  IF Len(parts) # 3 THEN NoDate
  ELSE IF IsDigits(parts[1], 4, 4) /\ IsDigits(parts[2], 1, 2) /\ IsDigits(parts[3], 1, 2)
       THEN MakeDate(ToNat(parts[1]), ToNat(parts[2]), ToNat(parts[3]))
  ELSE IF IsDigits(parts[1], 1, 2) /\ IsDigits(parts[2], 1, 2) /\ IsDigits(parts[3], 4, 4)
       THEN MakeDate(ToNat(parts[3]), ToNat(parts[1]), ToNat(parts[2]))
  ELSE NoDate

NumericDate(s, c) == NumericFields(SplitOn(s, c, <<>>))

StripComma(s) == IF s # <<>> /\ s[Len(s)] = COMMA THEN SubSeq(s, 1, Len(s) - 1) ELSE s

\* "Month D, YYYY", "Month D YYYY" and "D Month YYYY"
NamedFields(parts) ==
  IF Len(parts) # 3 THEN NoDate
  ELSE IF ~IsDigits(parts[3], 4, 4) THEN NoDate
  ELSE IF IsLetters(parts[1]) /\ IsDigits(StripComma(parts[2]), 1, 2)
       THEN MakeDate(ToNat(parts[3]), MonthOf(parts[1]), ToNat(StripComma(parts[2])))
  ELSE IF IsDigits(parts[1], 1, 2) /\ IsLetters(parts[2])
       THEN MakeDate(ToNat(parts[3]), MonthOf(parts[2]), ToNat(parts[1]))
  ELSE NoDate

NamedDate(s) == NamedFields(SplitOn(s, " ", <<>>))

FirstDate(a, b, c, d) == IF a.ok THEN a ELSE IF b.ok THEN b ELSE IF c.ok THEN c ELSE d

ParseTrimmedDate(t) ==
  FirstDate(NumericDate(t, "-"), NumericDate(t, "/"), NumericDate(t, "."), NamedDate(t))

\* new Date(str) on a string that matches one of the patterns of isValidDate;
\* ok is FALSE when no pattern matches or the date is invalid
ParseDate(str) == ParseTrimmedDate(Trim(str))

YearInRange(date) == date.ok /\ date.year >= 1900 /\ date.year <= 2100

isValidDate(str) ==
  IF str = <<>> \/ Len(str) < 6 \/ Len(str) > 30 THEN FALSE
  ELSE IF AllDigits(str) /\ Len(str) > 8 THEN FALSE
  ELSE YearInRange(ParseDate(str))

\* String(n).padStart(2, '0')
Pad2(n) == IF n < 10 THEN <<"0">> \o NatToString(n) ELSE NatToString(n)

FormatDate(y, m, d) == NatToString(y) \o <<"-">> \o Pad2(m) \o <<"-">> \o Pad2(d)

DateSeparators == {"/", "-", "."}

\* the fields of /^(\d{1,2})[\/\-\.](\d{1,2})[\/\-\.](\d{4})$/: the two
\* separators may differ
DayMonthYearFields(dateStr) ==
  SplitOn([i \in 1..Len(dateStr) |-> IF dateStr[i] \in DateSeparators THEN "/" ELSE dateStr[i]],
          "/", <<>>)

StandardizeParsed(dateStr, parts, date) ==
  IF /\ Len(parts) = 3
     /\ IsDigits(parts[1], 1, 2) /\ IsDigits(parts[2], 1, 2) /\ IsDigits(parts[3], 4, 4)
     /\ ToNat(parts[1]) > 12 /\ ToNat(parts[2]) <= 12
  THEN parts[3] \o <<"-">> \o Pad2(ToNat(parts[2])) \o <<"-">> \o Pad2(ToNat(parts[1]))
  ELSE IF YearInRange(date) THEN FormatDate(date.year, date.month, date.day)
  ELSE dateStr

standardizeDateFn(dateStr) ==
  IF dateStr = <<>> THEN dateStr
  ELSE StandardizeParsed(dateStr, DayMonthYearFields(dateStr), ParseDate(dateStr))

RECURSIVE Pow10(_)
Pow10(n) == IF n = 0 THEN 1 ELSE 10 * Pow10(n - 1)

\* the longest prefix of s made of digits
RECURSIVE DigitPrefix(_)
DigitPrefix(s) ==
  IF s # <<>> /\ Head(s) \in DigitSet THEN <<Head(s)>> \o DigitPrefix(Tail(s)) ELSE <<>>

NaN == [ok |-> FALSE, value |-> [num |-> 0, den |-> 1]]

\* mant * 10^(exp - scale) as a fraction whose denominator is a power of ten
Scaled(mant, scale, exp) ==
  IF exp >= scale THEN [ok |-> TRUE, value |-> [num |-> mant * Pow10(exp - scale), den |-> 1]]
  ELSE [ok |-> TRUE, value |-> [num |-> mant, den |-> Pow10(scale - exp)]]

\* the exponent part: e or E, an optional sign, and at least one digit
ParseExponent(whole, frac, rest) ==
  IF whole = <<>> /\ frac = <<>> THEN NaN
  ELSE IF Len(rest) >= 2 /\ rest[1] \in {"e", "E"} /\ rest[2] \in DigitSet
       THEN Scaled(ToNat(whole \o frac), Len(frac), ToNat(DigitPrefix(Tail(rest))))
  ELSE IF Len(rest) >= 3 /\ rest[1] \in {"e", "E"} /\ rest[2] = "+" /\ rest[3] \in DigitSet
       THEN Scaled(ToNat(whole \o frac), Len(frac), ToNat(DigitPrefix(SubSeq(rest, 3, Len(rest)))))
  ELSE IF Len(rest) >= 3 /\ rest[1] \in {"e", "E"} /\ rest[2] = "-" /\ rest[3] \in DigitSet
       THEN Scaled(ToNat(whole \o frac), Len(frac), 0 - ToNat(DigitPrefix(SubSeq(rest, 3, Len(rest)))))
  ELSE Scaled(ToNat(whole \o frac), Len(frac), 0)

FractionDigits(rest) == IF rest # <<>> /\ Head(rest) = "." THEN DigitPrefix(Tail(rest)) ELSE <<>>

ParseFraction(whole, rest) ==
  IF rest # <<>> /\ Head(rest) = "."
  THEN ParseExponent(whole, FractionDigits(rest), SubSeq(rest, Len(FractionDigits(rest)) + 2, Len(rest)))
  ELSE ParseExponent(whole, <<>>, rest)

ParseUnsigned(u) == ParseFraction(DigitPrefix(u), SubSeq(u, Len(DigitPrefix(u)) + 1, Len(u)))

Negated(n) == [ok |-> n.ok, value |-> [num |-> 0 - n.value.num, den |-> n.value.den]]

ParseSigned(negative, u) == IF negative THEN Negated(ParseUnsigned(u)) ELSE ParseUnsigned(u)

\* parseFloat(str): ok is FALSE for NaN; the value is the fraction num / den
\* (den a power of ten).  The literal Infinity is not modelled.
parseFloat(str) ==
  ParseSigned(TrimStart(str) # <<>> /\ Head(TrimStart(str)) = "-",
              IF TrimStart(str) # <<>> /\ Head(TrimStart(str)) \in {"-", "+"}
              THEN Tail(TrimStart(str)) ELSE TrimStart(str))


(***************************************************************************)
(* Type detection, lines 491-528                                           *)
(***************************************************************************)
\* /^(null|NULL|N\/A|na|none|undefined|nil|\?|-)$/i, on the lower-cased value
TypeNullTokens == { <<"n","u","l","l">>, <<"n","/","a">>, <<"n","a">>, <<"n","o","n","e">>,
                    <<"u","n","d","e","f","i","n","e","d">>, <<"n","i","l">>, <<"?">>, <<"-">> }

\* lines 494-496: the trimmed cells of one column that are neither empty
\* nor a null token; a row too short for the column counts as empty
ColumnValues(sampleRows, colIndex) ==
  SelectSeq([r \in 1..Len(sampleRows) |->
               IF colIndex <= Len(sampleRows[r]) THEN Trim(sampleRows[r][colIndex]) ELSE <<>>],
            LAMBDA v : v # <<>> /\ toLowerCase(v) \notin TypeNullTokens)

WithoutSign(v) == IF v # <<>> /\ Head(v) = "-" THEN Tail(v) ELSE v

\* /^-?\d+$/
IsIntegerShape(v) == WithoutSign(v) # <<>> /\ AllDigits(WithoutSign(v))

\* Math.abs(parseInt(v, 10)) of an integer-shaped value, as its decimal
\* digits without leading zeros (zero is the empty sequence)
RECURSIVE StripZeros(_)
StripZeros(ds) == IF ds # <<>> /\ Head(ds) = "0" THEN StripZeros(Tail(ds)) ELSE ds

Magnitude(v) == StripZeros(WithoutSign(v))

\* a < b for two naturals written in decimal digits without leading zeros
RECURSIVE DigitsLess(_, _)
DigitsLess(a, b) ==
  IF a = <<>> THEN FALSE
  ELSE IF Head(a) # Head(b) THEN DigitVal(Head(a)) < DigitVal(Head(b))
  ELSE DigitsLess(Tail(a), Tail(b))

DecimalLess(a, b) == Len(a) < Len(b) \/ (Len(a) = Len(b) /\ DigitsLess(a, b))

\* Math.max(...) of the magnitudes of a non-empty column
MaxMagnitude(values) ==
  LET ms == {Magnitude(values[i]) : i \in 1..Len(values)} IN
  CHOOSE m \in ms : \A n \in ms : ~DecimalLess(m, n)

\* the limits of lines 502-504: 128, 32768 and 2147483648
TINYINT_LIMIT == <<"1","2","8">>
SMALLINT_LIMIT == <<"3","2","7","6","8">>
INT_LIMIT == <<"2","1","4","7","4","8","3","6","4","8">>

\* the limits taken as <= for <
IntegerTierInclusive(maxVal) ==
  IF ~DecimalLess(TINYINT_LIMIT, maxVal) THEN "tinyint"
  ELSE IF ~DecimalLess(SMALLINT_LIMIT, maxVal) THEN "smallint"
  ELSE IF ~DecimalLess(INT_LIMIT, maxVal) THEN "int"
  ELSE "bigint"

IntegerTier(maxVal) ==
  IF DecimalLess(maxVal, TINYINT_LIMIT) THEN "tinyint"
  ELSE IF DecimalLess(maxVal, SMALLINT_LIMIT) THEN "smallint"
  ELSE IF DecimalLess(maxVal, INT_LIMIT) THEN "int"
  ELSE "bigint"

\* \d*\.?\d+
IsMantissa(m, parts) ==
  \/ Len(parts) = 1 /\ m # <<>> /\ AllDigits(m)
  \/ Len(parts) = 2 /\ AllDigits(parts[1]) /\ parts[2] # <<>> /\ AllDigits(parts[2])

\* [+-]?\d+
IsExponent(e) ==
  IF e # <<>> /\ Head(e) \in {"+", "-"} THEN Tail(e) # <<>> /\ AllDigits(Tail(e))
  ELSE e # <<>> /\ AllDigits(e)

ExponentMarks(u) == {i \in 1..Len(u) : u[i] \in {"e", "E"}}

DecimalBody(u, marks) ==
  IF marks = {} THEN IsMantissa(u, SplitOn(u, ".", <<>>))
  ELSE /\ Cardinality(marks) = 1
       /\ \E i \in marks :
            /\ IsMantissa(SubSeq(u, 1, i - 1), SplitOn(SubSeq(u, 1, i - 1), ".", <<>>))
            /\ IsExponent(SubSeq(u, i + 1, Len(u)))

\* /^-?\d*\.?\d+([eE][+-]?\d+)?$/
IsDecimalShape(v) == DecimalBody(WithoutSign(v), ExponentMarks(WithoutSign(v)))

\* line 509: the length of what follows the first '.', 0 when there is none
FractionLength(parts) == IF Len(parts) >= 2 THEN Len(parts[2]) ELSE 0

MaxFractionLength(values) ==
  LET ns == {FractionLength(SplitOn(values[i], ".", <<>>)) : i \in 1..Len(values)} IN
  CHOOSE m \in ns : \A n \in ns : n <= m

\* /^(true|false|yes|no|0|1|t|f|y|n)$/i, on the lower-cased value
BoolTokens == { <<"t","r","u","e">>, <<"f","a","l","s","e">>, <<"y","e","s">>, <<"n","o">>,
                <<"0">>, <<"1">>, <<"t">>, <<"f">>, <<"y">>, <<"n">> }

MaxLength(values) ==
  LET ns == {Len(values[i]) : i \in 1..Len(values)} IN CHOOSE m \in ns : \A n \in ns : n <= m

\* the length limits of lines 522-524
LONGTEXT_OVER == 5000
TEXT_OVER == 500
VARCHAR_LONG_OVER == 255

TextTier(maxLen) ==
  IF maxLen > LONGTEXT_OVER THEN "longtext"
  ELSE IF maxLen > TEXT_OVER THEN "text"
  ELSE IF maxLen > VARCHAR_LONG_OVER THEN "varchar_long"
  ELSE "varchar"

All(values, Test(_)) == \A i \in 1..Len(values) : Test(values[i])
Count(values, Test(_)) == Cardinality({i \in 1..Len(values) : Test(values[i])})

\* lines 516 and 519:  count > values.length * 0.7 .  The product is the
\* double nearest to length * 7 / 10; for the lengths below 90 it compares
\* with a whole number as the exact value does, so the test is
\* count * 10 > length * 7
OverThreshold(count, length) == count * 10 > length * 7

\* lines 498-524 for the values of one column
ColumnType(values) ==
  IF values = <<>> THEN "varchar"
  ELSE IF All(values, IsIntegerShape) THEN IntegerTier(MaxMagnitude(values))
  ELSE IF All(values, IsDecimalShape)
       THEN (IF MaxFractionLength(values) <= 2 THEN "decimal_money" ELSE "decimal")
  ELSE IF All(values, LAMBDA v : toLowerCase(v) \in BoolTokens) THEN "bool"
  ELSE IF OverThreshold(Count(values, isValidDate), Len(values)) THEN "date"
  ELSE IF OverThreshold(Count(values, looksLikeEmail), Len(values)) THEN "email"
  ELSE TextTier(MaxLength(values))

\* types[header] for every header; for a name that occurs twice the later
\* column overwrites the earlier one
detectColumnTypes(headers, sampleRows) ==
  [h \in {headers[i] : i \in 1..Len(headers)} |->
     ColumnType(ColumnValues(sampleRows,
       CHOOSE i \in 1..Len(headers) :
         headers[i] = h /\ \A j \in 1..Len(headers) : headers[j] = h => j <= i))]

(***************************************************************************)
(* SQL generation, lines 532-557                                           *)
(***************************************************************************)
\* the grave accent that encloses a name
BACKTICK == "U+0060"

\* lines 533-538 and the default of line 544
typeMap(tag) ==
  CASE tag = "tinyint" -> <<"T","I","N","Y","I","N","T">>
    [] tag = "smallint" -> <<"S","M","A","L","L","I","N","T">>
    [] tag = "int" -> <<"I","N","T">>
    [] tag = "bigint" -> <<"B","I","G","I","N","T">>
    [] tag = "decimal" -> <<"D","E","C","I","M","A","L","(","1","5",COMMA,"4",")">>
    [] tag = "decimal_money" -> <<"D","E","C","I","M","A","L","(","1","0",COMMA,"2",")">>
    [] tag = "bool" -> <<"T","I","N","Y","I","N","T","(","1",")">>
    [] tag = "date" -> <<"D","A","T","E">>
    [] tag = "text" -> <<"T","E","X","T">>
    [] tag = "longtext" -> <<"L","O","N","G","T","E","X","T">>
    [] tag = "varchar" -> <<"V","A","R","C","H","A","R","(","2","5","5",")">>
    [] tag = "varchar_long" -> <<"V","A","R","C","H","A","R","(","5","0","0",")">>
    [] tag = "email" -> <<"V","A","R","C","H","A","R","(","3","2","0",")">>
    [] OTHER -> <<"T","E","X","T">>

SqlHead ==
  <<"-","-"," ","G","e","n","e","r","a","t","e","d"," ","b","y"," ","D","a","t","a","S","c",
    "r","u","b"," ","P","r","o",LF,"-","-"," ","D","a","t","e",":"," ">>

SqlDatabase ==
  <<LF,LF,"C","R","E","A","T","E"," ","D","A","T","A","B","A","S","E"," ","I","F"," ","N",
    "O","T"," ","E","X","I","S","T","S"," ","m","y","d","b",LF," "," ","C","H","A","R","A",
    "C","T","E","R"," ","S","E","T"," ","u","t","f","8","m","b","4",LF," "," ","C","O","L",
    "L","A","T","E"," ","u","t","f","8","m","b","4","_","u","n","i","c","o","d","e","_",
    "c","i",";",LF,"U","S","E"," ","m","y","d","b",";",LF,LF,"D","R","O","P"," ","T","A",
    "B","L","E"," ","I","F"," ","E","X","I","S","T","S"," ",BACKTICK>>

SqlCreate ==
  <<BACKTICK,";",LF,LF,"C","R","E","A","T","E"," ","T","A","B","L","E"," ",BACKTICK>>

SqlOpen ==
  <<BACKTICK," ","(",LF>>

SqlClose ==
  <<LF,")"," ","E","N","G","I","N","E","=","I","n","n","o","D","B"," ","D","E","F","A","U",
    "L","T"," ","C","H","A","R","S","E","T","=","u","t","f","8","m","b","4"," ","C","O",
    "L","L","A","T","E","=","u","t","f","8","m","b","4","_","u","n","i","c","o","d","e",
    "_","c","i",";">>

PrimaryKeyClause ==
  <<" ","N","O","T"," ","N","U","L","L"," ","A","U","T","O","_","I","N","C","R","E","M","E",
    "N","T"," ","P","R","I","M","A","R","Y"," ","K","E","Y">>

AddedKeyType ==
  <<"B","I","G","I","N","T"," ","N","O","T"," ","N","U","L","L"," ","A","U","T","O","_","I",
    "N","C","R","E","M","E","N","T"," ","P","R","I","M","A","R","Y"," ","K","E","Y">>

\* new Date().toISOString() when the clock stands at ms milliseconds, ms
\* below 1000, after the epoch
toISOString(ms) ==
  <<"1","9","7","0","-","0","1","-","0","1","T","0","0",":","0","0",":","0","0",".">>
    \o (IF ms < 10 THEN <<"0","0">> ELSE IF ms < 100 THEN <<"0">> ELSE <<>>)
    \o NatToString(ms) \o <<"Z">>

Spaces(n) == [i \in 1..n |-> " "]

\* line 547 and line 551
SqlPad(name) == Spaces(IF 30 - Len(name) > 1 THEN 30 - Len(name) ELSE 1)

\* typeMap[types[h]] || 'TEXT': a header types has no entry for is TEXT
SqlTypeOf(types, h) == IF h \in DOMAIN types THEN typeMap(types[h]) ELSE typeMap("")

\* lines 543-549: the definition of one header
ColumnDef(h, types, pkColumn) ==
  <<" "," "," "," ",BACKTICK>> \o h \o <<BACKTICK>> \o SqlPad(h) \o SqlTypeOf(types, h)
    \o (IF h = pkColumn THEN PrimaryKeyClause ELSE <<>>)

\* line 552: the definition of the added key column
AddedKeyDef(pkColumn) ==
  <<" "," "," "," ",BACKTICK>> \o pkColumn \o <<BACKTICK>> \o SqlPad(pkColumn) \o AddedKeyType

AddsKeyAlways(headers, pkColumn) == \A i \in 1..Len(headers) : headers[i] # pkColumn

\* line 550: pkColumn && !headers.includes(pkColumn)
AddsKey(headers, pkColumn) ==
  pkColumn # <<>> /\ \A i \in 1..Len(headers) : headers[i] # pkColumn

\* lines 543-553
ColumnDefs(headers, types, pkColumn) ==
  (IF AddsKey(headers, pkColumn) THEN <<AddedKeyDef(pkColumn)>> ELSE <<>>)
    \o [i \in 1..Len(headers) |-> ColumnDef(headers[i], types, pkColumn)]

generateCreateTableUndated(tableName, headers, types, pkColumn, now) ==
  SqlHead \o toISOString(0) \o SqlDatabase \o tableName \o SqlCreate \o tableName
    \o SqlOpen \o Join(ColumnDefs(headers, types, pkColumn), <<COMMA, LF>>) \o SqlClose

\* the statement text; now is what the clock reads at the call (line 539)
generateCreateTable(tableName, headers, types, pkColumn, now) ==
  SqlHead \o toISOString(now) \o SqlDatabase \o tableName \o SqlCreate \o tableName
    \o SqlOpen \o Join(ColumnDefs(headers, types, pkColumn), <<COMMA, LF>>) \o SqlClose

(***************************************************************************)
(* The sample of the cleaned rows and the outlier report, lines 603-616    *)
(* and 949-967                                                             *)
(***************************************************************************)
\* a < b for two numbers held as fractions with positive denominators
LessNumber(a, b) == a.num * b.den < b.num * a.den

\* [...values].sort((a, b) => a - b), by insertion
RECURSIVE InsertNumber(_, _)
InsertNumber(sorted, v) ==
  IF sorted = <<>> THEN <<v>>
  ELSE IF LessNumber(v, Head(sorted)) THEN <<v>> \o sorted
  ELSE <<Head(sorted)>> \o InsertNumber(Tail(sorted), v)

RECURSIVE SortNumbers(_)
SortNumbers(values) ==
  IF values = <<>> THEN <<>>
  ELSE InsertNumber(SortNumbers(SubSeq(values, 1, Len(values) - 1)), values[Len(values)])

\* line 952: a column with fewer samples is passed over
MIN_OUTLIER_SAMPLES == 10

\* sorted[Math.floor(sorted.length * 0.75)] read one place too far down
QuartileBelow(sorted, quarters) == sorted[((Len(sorted) * quarters) \div 4)]

\* lines 954-955: sorted[Math.floor(sorted.length * 0.25)] and
\* sorted[Math.floor(sorted.length * 0.75)], the index 0-based
Quartile(sorted, quarters) == sorted[((Len(sorted) * quarters) \div 4) + 1]

\* q1 - 1.5 * iqr  and  q3 + 1.5 * iqr  with iqr = q3 - q1
LowerFence(q1, q3) ==
  [num |-> 5 * q1.num * q3.den - 3 * q3.num * q1.den, den |-> 2 * q1.den * q3.den]
UpperFence(q1, q3) ==
  [num |-> 5 * q3.num * q1.den - 3 * q1.num * q3.den, den |-> 2 * q1.den * q3.den]

\* line 957: the number of samples outside the fences
CountOutside(values, lower, upper) ==
  Cardinality({i \in 1..Len(values) :
                 LessNumber(values[i], lower) \/ LessNumber(upper, values[i])})

OutliersOf(values, sorted) ==
  CountOutside(values, LowerFence(Quartile(sorted, 1), Quartile(sorted, 3)),
                       UpperFence(Quartile(sorted, 1), Quartile(sorted, 3)))

\* lines 949-967: the columns reported, in the order of their keys, each
\* with its 0-based rawHeaders index, its name and its count.  Nothing is
\* reported unless detectOutliers is on
RECURSIVE OutlierReportFrom(_, _, _)
OutlierReportFrom(numericColumns, rawHeaders, k) ==
  IF k >= Len(rawHeaders) THEN <<>>
  ELSE (IF /\ k \in DOMAIN numericColumns
           /\ Len(numericColumns[k]) >= MIN_OUTLIER_SAMPLES
           /\ OutliersOf(numericColumns[k], SortNumbers(numericColumns[k])) > 0
        THEN <<[colIdx |-> k, name |-> rawHeaders[k + 1],
                count |-> OutliersOf(numericColumns[k], SortNumbers(numericColumns[k]))]>>
        ELSE <<>>)
       \o OutlierReportFrom(numericColumns, rawHeaders, k + 1)

OutlierReport(cfg, numericColumns, rawHeaders) ==
  IF cfg.detectOutliers /\ DOMAIN numericColumns # {}
  THEN OutlierReportFrom(numericColumns, rawHeaders, 0)
  ELSE <<>>

\* lines 603-616: the data rows of the chunks, re-parsed; the first line of
\* chunk zero is passed over, blank lines are passed over, and the rows stop
\* at maxRows
RECURSIVE ParseLinesFrom(_, _, _, _, _)
ParseLinesFrom(lines, i, rows, maxRows, separator) ==
  IF i > Len(lines) \/ Len(rows) >= maxRows THEN rows
  ELSE IF Trim(lines[i]) = <<>> THEN ParseLinesFrom(lines, i + 1, rows, maxRows, separator)
  ELSE ParseLinesFrom(lines, i + 1, Append(rows, parseCSVLine(lines[i], separator)),
                      maxRows, separator)

RECURSIVE RowsOfChunksFrom(_, _, _, _, _)
RowsOfChunksFrom(chunks, c, rows, maxRows, separator) ==
  IF c > Len(chunks) \/ Len(rows) >= maxRows THEN rows
  ELSE RowsOfChunksFrom(chunks, c + 1,
         ParseLinesFrom(SplitLines(chunks[c]), IF c = 1 THEN 2 ELSE 1, rows, maxRows, separator),
         maxRows, separator)

getAllDataRows(chunks, maxRows, separator) == RowsOfChunksFrom(chunks, 1, <<>>, maxRows, separator)

(***************************************************************************)
(* processFile: inputs, locals and observations                            *)
(***************************************************************************)
VARIABLES
  file,       \* the text of the source file, read-only
  config,     \* the CleaningConfig of the run, read-only
  chunkSize,  \* CHUNK_SIZE, the width of one read window (scaled down)
  pc,         \* where processFile stands: "loop", "rows", "done", "failed";
              \* "sample" and "typed" around a type detection on its own,
              \* "outliers" and "reported" around an outlier report on its own
  run,        \* the locals of processFile and what it has told its sinks
  host        \* what lives outside the run: the clock that new Date() reads
              \* (line 539), the module-level store (lines 53-58), the
              \* state of the page (App.tsx lines 21-48) and a second file
              \* the user has at hand

vars == <<file, config, chunkSize, pc, run, host>>

\* scaled-down stand-ins for the row counts 1000 (flush, line 912) and
\* 5000 (processing progress, line 922)
FLUSH_ROWS == 2
PROGRESS_ROWS == 2
\* line 745 and line 759
MAX_QUOTE_MERGES == 50
MAX_REMERGE == 10
\* lines 778 and 875: only the first occurrences are logged
LOG_LIMIT == 5
\* scaled-down stand-in for the 500 sample rows of line 945
SAMPLE_ROWS == 2
\* scaled-down stand-in for the 15 preview rows of App.tsx line 186
PREVIEW_ROWS == 2

Min(a, b) == IF a <= b THEN a ELSE b

getEolChar(eol) ==
  CASE eol = "CRLF" -> <<CR, LF>>
    [] eol = "CR"   -> <<CR>>
    [] eol = "LFCR" -> <<LF, CR>>
    [] eol = "NEL"  -> <<"U+0085">>
    [] eol = "LS"   -> <<"U+2028">>
    [] eol = "PS"   -> <<"U+2029">>
    [] OTHER        -> <<LF>>

\* the host before anything has run: nothing stored (lines 53-58), no file
\* selected and nothing shown (App.tsx lines 21-75).  A file is named by its
\* place in host.files, 0 for none
InitHost == [
  clock |-> 0, statements |-> <<>>,
  otherFile |-> <<>>,
  \* a second call of processFile, on otherFile: its locals and where it stands
  other |-> <<>>, otherPc |-> "idle",
  storedChunks |-> <<>>, storedHeaders |-> <<>>, storedFileName |-> 0,
  storedSeparator |-> COMMA, storedCreateSQL |-> <<>>, storedLoadSQL |-> <<>>,
  files |-> <<>>, selected |-> 0, captured |-> 0, runs |-> 0,
  isProcessing |-> FALSE, showProgress |-> FALSE, showResults |-> FALSE,
  stats |-> [original |-> 0, cleaned |-> 0, removed |-> 0, cols |-> 0, fixed |-> 0],
  resultHeaders |-> <<>>, resultColumnTypes |-> <<>>, previewRows |-> <<>>,
  createSQLDisplay |-> <<>>,
  \* the file the values on display were computed from
  shownFor |-> 0 ]

InitRun == [
  offset |-> 0, leftover |-> <<>>, cleanedDataChunks |-> <<>>, rowBuffer |-> <<>>,
  separator |-> <<>>, isFirstChunk |-> TRUE,
  rawHeaders |-> <<>>, fileHeaders |-> <<>>,
  sourceIdColIndex |-> -1, hasGeneratedId |-> FALSE,
  seenHashes |-> {}, fuzzyHashes |-> {},
  totalOriginalRows |-> 0, totalCleanedRows |-> 0, totalFixedCells |-> 0,
  fuzzyDupCount |-> 0, columnMismatchCount |-> 0, idCounter |-> 1,
  numericColumns |-> <<>>,
  lines |-> <<>>, li |-> 0,
  \* observations: the onProgress calls, the onLog warnings, and the rows
  \* that reached the duplicate check and the rows pushed to rowBuffer
  progress |-> <<>>, logs |-> <<>>, reached |-> <<>>, emitted |-> <<>>,
  \* the lines of every window, as handed to header and row processing
  handed |-> <<>>,
  \* the cells parseCSVLine returned for a line parsed on its own
  parsed |-> <<>>,
  \* the text each row was parsed from: its line and the lines merged into it
  sources |-> <<>>,
  \* the CleaningStats of the result, set when the run completes
  stats |-> [original |-> 0, cleaned |-> 0, removed |-> 0, cols |-> 0, fixed |-> 0],
  \* 1 for a run on a source file, 2 for a run on the output of run 1, ...
  pass |-> 1,
  \* the rows whose processing threw, the offset of the window whose read
  \* failed (-1: none), and whether processFile returned its result
  thrown |-> {}, readFailedAt |-> -1, returned |-> FALSE,
  \* lines 945-946: the sample of the cleaned rows and the types of its columns
  sampleData |-> <<>>, columnTypes |-> <<>>,
  \* lines 949-967: the columns reported as having outliers
  outliers |-> <<>> ]

\* the value of a const, named once and used by what follows it
Bind(value, Rest(_)) == Rest(value)

(***************************************************************************)
(* Header processing, lines 685-732                                        *)
(***************************************************************************)
\* lines 708-721: a source id column at index k gives its place to the new id
WithGeneratedId(rawHeaders, k) ==
  IF k = -1
  THEN [fileHeaders |-> <<<<"i","d">>>> \o rawHeaders, sourceIdColIndex |-> -1,
        hasGeneratedId |-> TRUE]
  ELSE [fileHeaders |-> <<<<"i","d">>>> \o WithoutIndex(rawHeaders, k),
        sourceIdColIndex |-> k, hasGeneratedId |-> TRUE]

\* lines 705-726: fileHeaders, sourceIdColIndex, hasGeneratedId
BuildFileHeaders(rawHeaders, generateId) ==
  IF generateId THEN WithGeneratedId(rawHeaders, FindIdIndex(rawHeaders))
  ELSE [fileHeaders |-> rawHeaders, sourceIdColIndex |-> -1, hasGeneratedId |-> FALSE]

\* quoted cells joined by a comma, lines 729 and 909
SerializeRow(cells) == Join([i \in 1..Len(cells) |-> quoteCell(cells[i])], <<COMMA>>)

\* the header line of the first non-empty window; rnd[i] is the random
\* suffix drawn for header cell i, for the cells that need one
ProcessHeader(r, cfg, lines, rnd) ==
  Bind(StripBom(lines[1]), LAMBDA first :
  Bind(detectSeparator(first), LAMBDA separator :
  Bind(parseCSVLine(first, separator), LAMBDA parsed :
  Bind(DedupHeaders([i \in 1..Len(parsed) |->
         sanitizeColumnName(parsed[i], IF i \in DOMAIN rnd THEN rnd[i] ELSE <<>>)]),
       LAMBDA rawHeaders :
  Bind(BuildFileHeaders(rawHeaders, cfg.generateId), LAMBDA h :
    [r EXCEPT
       !.separator = separator,
       !.rawHeaders = rawHeaders,
       !.fileHeaders = h.fileHeaders,
       !.sourceIdColIndex = h.sourceIdColIndex,
       !.hasGeneratedId = h.hasGeneratedId,
       !.cleanedDataChunks = Append(@, SerializeRow(h.fileHeaders) \o getEolChar(cfg.eol)),
       !.lines = Tail(lines),
       !.isFirstChunk = FALSE])))))

\* lines 975-982: readAsText(blob, 'UTF-8') decodes the bytes of one window
\* on their own.  A file is a sequence of bytes; an ASCII byte is written as
\* its character, and "xC3", "xA9" are the two bytes of U+00E9.  A lead byte
\* without its continuation in the same window, and a continuation byte
\* without its lead, decode to U+FFFD
readChunkAsText(blob) ==
  LET decoded(i) ==
        IF blob[i] = "xC3"
        THEN (IF i < Len(blob) /\ blob[i + 1] = "xA9" THEN "U+00E9" ELSE "U+FFFD")
        ELSE IF blob[i] = "xA9"
        THEN (IF i > 1 /\ blob[i - 1] = "xC3" THEN "" ELSE "U+FFFD")
        ELSE blob[i]
  IN SelectSeq([i \in 1..Len(blob) |-> decoded(i)], LAMBDA c : c # "")

\* lines 680-682: the complete lines of a window and the unfinished rest
SplitWindow(fullText, more) ==
  Bind(SplitLines(fullText), LAMBDA split :
    IF more THEN [lines |-> SubSeq(split, 1, Len(split) - 1), leftover |-> split[Len(split)]]
    ELSE [lines |-> split, leftover |-> <<>>])

\* a variant of the pass that leaves the offset where it is
ReadWindowStuck(r, f, cfg, size, rnd) ==
  Bind(SplitWindow(r.leftover \o readChunkAsText(SubSeq(f, r.offset + 1, Min(r.offset + size, Len(f)))),
                   r.offset + size < Len(f)), LAMBDA w :
  Bind([r EXCEPT !.offset = @,
                 !.progress = Append(@, [kind |-> "read",
                                         num |-> Min(50 * Len(f), (r.offset + size) * 50),
                                         den |-> Len(f)]),
                 !.leftover = w.leftover,
                 !.lines = w.lines,
                 !.handed = @ \o w.lines,
                 !.li = 0], LAMBDA r1 :
    IF r.isFirstChunk /\ Len(w.lines) > 0 THEN ProcessHeader(r1, cfg, w.lines, rnd) ELSE r1))

\* one pass of the while loop up to the row loop, lines 672-732
ReadWindow(r, f, cfg, size, rnd) ==
  Bind(SplitWindow(r.leftover \o readChunkAsText(SubSeq(f, r.offset + 1, Min(r.offset + size, Len(f)))),
                   r.offset + size < Len(f)), LAMBDA w :
  Bind([r EXCEPT !.offset = @ + size,
                 !.progress = Append(@, [kind |-> "read",
                                         num |-> Min(50 * Len(f), (r.offset + size) * 50),
                                         den |-> Len(f)]),
                 !.leftover = w.leftover,
                 !.lines = w.lines,
                 !.handed = @ \o w.lines,
                 !.li = 0], LAMBDA r1 :
    IF r.isFirstChunk /\ Len(w.lines) > 0 THEN ProcessHeader(r1, cfg, w.lines, rnd) ELSE r1))

\* the cells of a header line that sanitize to nothing
EmptyNames(parsed) ==
  {i \in 1..Len(parsed) : sanitizeColumnName(parsed[i], <<>>) = <<"c","o","l","_">>}

\* the header cells of the window about to be read that need a random suffix
NeedsRandom(r, f, size) ==
  Bind(SplitWindow(r.leftover \o readChunkAsText(SubSeq(f, r.offset + 1, Min(r.offset + size, Len(f)))),
                   r.offset + size < Len(f)), LAMBDA w :
    IF r.isFirstChunk /\ Len(w.lines) > 0
    THEN EmptyNames(parseCSVLine(StripBom(w.lines[1]), detectSeparator(StripBom(w.lines[1]))))
    ELSE {})

(***************************************************************************)
(* Row processing, lines 735-920                                           *)
(***************************************************************************)
countQuotes(s) == CountChar(s, QUOTE)

\* lines 743-750; li is 0-based as in the source, lines[li + 1] is its line
RECURSIVE MergeQuoted(_, _, _, _)
MergeQuoted(lines, li, line, merges) ==
  IF li + 1 < Len(lines) /\ countQuotes(line) % 2 = 1 /\ merges < MAX_QUOTE_MERGES
  THEN MergeQuoted(lines, li + 1, line \o <<LF>> \o lines[li + 2], merges + 1)
  ELSE [li |-> li, line |-> line]

\* a variant of the re-merge that takes the first following line that has
\* the header count by itself, in place of the line it follows
RECURSIVE ReMergeReplacing(_, _, _, _, _, _)
ReMergeReplacing(lines, li, attempt, m, sep, want) ==
  IF m <= MAX_REMERGE /\ li + m < Len(lines)
  THEN IF Len(parseCSVLine(lines[li + m + 1], sep)) = want
       THEN [merged |-> TRUE, cells |-> parseCSVLine(lines[li + m + 1], sep),
             li |-> li + m, source |-> lines[li + m + 1]]
       ELSE ReMergeReplacing(lines, li, attempt, m + 1, sep, want)
  ELSE [merged |-> FALSE, cells |-> <<>>, li |-> li, source |-> attempt]

\* lines 757-768: the first of the next lines whose merge gives the header count
RECURSIVE ReMerge(_, _, _, _, _, _)
ReMerge(lines, li, attempt, m, sep, want) ==
  IF m <= MAX_REMERGE /\ li + m < Len(lines)
  THEN IF Len(parseCSVLine(attempt \o <<LF>> \o lines[li + m + 1], sep)) = want
       THEN [merged |-> TRUE, cells |-> parseCSVLine(attempt \o <<LF>> \o lines[li + m + 1], sep),
             li |-> li + m, source |-> attempt \o <<LF>> \o lines[li + m + 1]]
       ELSE ReMerge(lines, li, attempt \o <<LF>> \o lines[li + m + 1], m + 1, sep, want)
  ELSE [merged |-> FALSE, cells |-> <<>>, li |-> li, source |-> attempt]

\* lines 773-777
PadOrTruncate(cells, n) ==
  [i \in 1..n |-> IF i <= Len(cells) THEN cells[i] ELSE <<>>]

\* lines 756-782: rawCells brought to the length of rawHeaders
ReconcileColumns(lines, li, line, sep, want) ==
  Bind(parseCSVLine(line, sep), LAMBDA rawCells :
    IF Len(rawCells) = want
    THEN [cells |-> rawCells, li |-> li, mismatch |-> FALSE, originalCount |-> Len(rawCells),
          source |-> line]
    ELSE Bind(ReMerge(lines, li, line, 1, sep, want), LAMBDA m :
           IF m.merged
           THEN [cells |-> m.cells, li |-> m.li, mismatch |-> FALSE,
                 originalCount |-> Len(rawCells), source |-> m.source]
           ELSE [cells |-> PadOrTruncate(rawCells, want), li |-> li, mismatch |-> TRUE,
                 originalCount |-> Len(rawCells), source |-> line]))

\* the number of indices where two rows of equal length differ
Changed(before, after) == Cardinality({i \in 1..Len(before) : before[i] # after[i]})

\* lines 795-809: the transforms of standard mode, with the cells they changed
StandardPass(cfg, rawCells) ==
  Bind(IF cfg.fixEncoding
       THEN [i \in 1..Len(rawCells) |-> fixEncodingIssues(rawCells[i])] ELSE rawCells,
       LAMBDA c1 :
  Bind(IF cfg.trimWhitespace
       THEN [i \in 1..Len(c1) |-> trimWhitespaceFn(c1[i])] ELSE c1,
       LAMBDA c2 :
    IF cfg.normalizeValues
    THEN [cells |-> [i \in 1..Len(c2) |-> IF IsNullToken(Trim(c2[i])) THEN <<>> ELSE Trim(c2[i])],
          fixed |-> Changed(rawCells, c1) + Changed(c1, c2)
                      + Cardinality({i \in 1..Len(c2) : IsNullToken(Trim(c2[i]))})]
    ELSE [cells |-> c2, fixed |-> Changed(rawCells, c1) + Changed(c1, c2)]))

\* one guarded rewrite of lines 819-840: the cell is replaced, and counted
\* as fixed, when the transform is enabled and changes it
Rewrite(acc, enabled, after) ==
  IF enabled /\ after # acc.cell THEN [cell |-> after, fixed |-> acc.fixed + 1] ELSE acc

HtmlStep(cfg, acc) ==
  Rewrite(acc, cfg.removeHtmlTags /\ acc.cell # <<>> /\ HasTag(acc.cell), removeHtmlTagsFn(acc.cell))

EmailStep(cfg, acc) ==
  Rewrite(acc, cfg.validateEmail /\ looksLikeEmail(acc.cell), fixEmail(acc.cell))

\* PhoneStep without the test of the column name
PhoneStepAnyColumn(cfg, colName, acc) ==
  Rewrite(acc, cfg.standardizePhone /\ looksLikePhone(acc.cell), standardizePhoneFn(acc.cell))

PhoneStep(cfg, colName, acc) ==
  Rewrite(acc, cfg.standardizePhone /\ isPhoneColumnName(colName) /\ looksLikePhone(acc.cell),
          standardizePhoneFn(acc.cell))

DateStep(cfg, acc) ==
  Rewrite(acc, cfg.standardizeDate /\ isValidDate(acc.cell), standardizeDateFn(acc.cell))

CaseStep(cfg, colName, acc) ==
  Rewrite(acc, cfg.normalizeCase /\ acc.cell # <<>>, normalizeCaseFn(acc.cell, colName))

SpecialCharsStep(cfg, acc) ==
  Rewrite(acc, cfg.removeSpecialChars /\ acc.cell # <<>>, removeSpecialCharsFn(acc.cell))

NumberStep(cfg, acc) ==
  Rewrite(acc, cfg.fixNumberFormats /\ acc.cell # <<>>, fixNumberFormat(acc.cell))

\* lines 819-840 for one cell: the cell after each enabled transform, in
\* order, and the number of transforms that changed it
AdvancedCell(cfg, colName, cell) ==
  NumberStep(cfg, SpecialCharsStep(cfg, CaseStep(cfg, colName, DateStep(cfg,
    PhoneStep(cfg, colName, EmailStep(cfg, HtmlStep(cfg, [cell |-> cell, fixed |-> 0])))))))

RECURSIVE SumFixed(_)
SumFixed(out) == IF out = <<>> THEN 0 ELSE Head(out).fixed + SumFixed(Tail(out))

\* lines 841-850: the numbers read off the cells join their column's samples;
\* numericColumns is keyed by the 0-based rawHeaders index
CollectSamples(numericColumns, nums) ==
  [k \in (DOMAIN numericColumns) \cup {i - 1 : i \in {j \in DOMAIN nums : nums[j].ok}} |->
     (IF k \in DOMAIN numericColumns THEN numericColumns[k] ELSE <<>>)
       \o (IF k + 1 \in DOMAIN nums /\ nums[k + 1].ok THEN <<nums[k + 1].value>> ELSE <<>>)]

\* lines 811-852: the advanced loop over the cells, the source id slot skipped
AdvancedPass(cfg, rawHeaders, sourceIdColIndex, rawCells, numericColumns) ==
  IF cfg.mode # "advanced"
  THEN [cells |-> rawCells, fixed |-> 0, numericColumns |-> numericColumns]
  ELSE Bind([i \in 1..Len(rawCells) |->
               IF i - 1 # sourceIdColIndex THEN AdvancedCell(cfg, rawHeaders[i], rawCells[i])
               ELSE [cell |-> rawCells[i], fixed |-> 0]], LAMBDA out :
         [cells |-> [i \in 1..Len(out) |-> out[i].cell],
          fixed |-> SumFixed(out),
          numericColumns |->
            CollectSamples(numericColumns,
              [i \in 1..Len(out) |->
                 IF cfg.detectOutliers /\ i - 1 # sourceIdColIndex /\ out[i].cell # <<>>
                 THEN parseFloat(out[i].cell) ELSE NaN])])

IsBlank(c) == Trim(c) = <<>>

\* lines 857-862: TRUE when a row filter drops the row
DroppedByFilter(cfg, rawCells) ==
  \/ cfg.removeEmpty /\ \A i \in 1..Len(rawCells) : IsBlank(rawCells[i])
  \/ cfg.removeRowsWithEmptyValues /\ \E i \in 1..Len(rawCells) : IsBlank(rawCells[i])

dedupeKeyWholeRow(rawCells, sourceIdColIndex) == Join(rawCells, <<NUL>>)

\* line 866
dedupeKey(rawCells, sourceIdColIndex) == Join(WithoutIndex(rawCells, sourceIdColIndex), <<NUL>>)

\* line 598
fuzzyNormalize(str) ==
  SelectChars(RemoveChars(toLowerCase(str), WhiteSpace), LowerSet \cup DigitSet)

FuzzyCells(data) == Join([i \in 1..Len(data) |-> fuzzyNormalize(data[i])], <<NUL>>)

\* line 872
fuzzyKey(rawCells, sourceIdColIndex) == FuzzyCells(WithoutIndex(rawCells, sourceIdColIndex))

\* a variant of the assembly that numbers the rows from zero
AssembleZeroBased(rawCells, rawHeaders, hasGeneratedId, sourceIdColIndex, idCounter) ==
  IF hasGeneratedId
  THEN <<NatToString(idCounter - 1)>>
         \o WithoutIndex([i \in 1..Len(rawHeaders) |-> rawCells[i]], sourceIdColIndex)
  ELSE rawCells

\* a variant of the assembly that keeps the source id cell behind the new id
AssembleKeepingSourceId(rawCells, rawHeaders, hasGeneratedId, sourceIdColIndex, idCounter) ==
  IF hasGeneratedId THEN <<NatToString(idCounter)>> \o rawCells ELSE rawCells

\* lines 884-899: the output cells before the final clamp
AssembleOutput(rawCells, rawHeaders, hasGeneratedId, sourceIdColIndex, idCounter) ==
  IF hasGeneratedId
  THEN <<NatToString(idCounter)>>
         \o WithoutIndex([i \in 1..Len(rawHeaders) |-> rawCells[i]], sourceIdColIndex)
  ELSE rawCells

\* lines 902-907
ClampToHeaders(outputCells, fileHeaders) == PadOrTruncate(outputCells, Len(fileHeaders))

\* lines 912-916: a full buffer becomes a chunk
Flush(r, eolChar) ==
  IF Len(r.rowBuffer) >= FLUSH_ROWS
  THEN [r EXCEPT !.cleanedDataChunks = Append(@, Join(r.rowBuffer, eolChar) \o eolChar),
                 !.rowBuffer = <<>>]
  ELSE r

\* a variant of the emission that prepends the id to all the raw cells and
\* pushes the row without the clamp of lines 902-907
EmitUnclamped(r, cfg, rawCells, row) ==
  Bind(IF r.hasGeneratedId THEN <<NatToString(r.idCounter)>> \o rawCells ELSE rawCells,
       LAMBDA outputCells :
    Flush([r EXCEPT
             !.idCounter = IF r.hasGeneratedId THEN @ + 1 ELSE @,
             !.totalCleanedRows = @ + 1,
             !.rowBuffer = Append(@, SerializeRow(outputCells)),
             !.emitted = Append(@, [cells |-> outputCells, raw |-> rawCells, row |-> row])],
          getEolChar(cfg.eol)))

\* lines 882-916: the row is assembled, clamped, pushed, and the buffer flushed
Emit(r, cfg, rawCells, row) ==
  Bind(ClampToHeaders(AssembleOutput(rawCells, r.rawHeaders, r.hasGeneratedId,
                                     r.sourceIdColIndex, r.idCounter),
                      r.fileHeaders), LAMBDA outputCells :
    Flush([r EXCEPT
             !.idCounter = IF r.hasGeneratedId THEN @ + 1 ELSE @,
             !.totalCleanedRows = @ + 1,
             !.rowBuffer = Append(@, SerializeRow(outputCells)),
             !.emitted = Append(@, [cells |-> outputCells, raw |-> rawCells, row |-> row])],
          getEolChar(cfg.eol)))

\* a variant of the fuzzy check that never records the key of a row it lets through
FuzzyCheckForgetful(r, cfg, rawCells, row, fuzzy) ==
  IF cfg.fuzzyDuplicates /\ fuzzy \in r.fuzzyHashes
  THEN [r EXCEPT !.fuzzyDupCount = @ + 1,
                 !.logs = IF r.fuzzyDupCount + 1 <= LOG_LIMIT
                          THEN Append(@, [kind |-> "fuzzy", row |-> row]) ELSE @]
  ELSE Emit(r, cfg, rawCells, row)

\* lines 870-879: the fuzzy check, then the output assembly
FuzzyCheck(r, cfg, rawCells, row, fuzzy) ==
  IF cfg.fuzzyDuplicates /\ fuzzy \in r.fuzzyHashes
  THEN [r EXCEPT !.fuzzyDupCount = @ + 1,
                 !.logs = IF r.fuzzyDupCount + 1 <= LOG_LIMIT
                          THEN Append(@, [kind |-> "fuzzy", row |-> row]) ELSE @]
  ELSE Emit(IF cfg.fuzzyDuplicates THEN [r EXCEPT !.fuzzyHashes = @ \cup {fuzzy}] ELSE r,
            cfg, rawCells, row)

\* a variant of the exact check whose key is the whole row, source id cell included
ExactCheckWholeRow(r, cfg, rawCells, row, key) ==
  IF cfg.removeDuplicates /\ Join(rawCells, <<NUL>>) \in r.seenHashes THEN r
  ELSE FuzzyCheck(IF cfg.removeDuplicates
                  THEN [r EXCEPT !.seenHashes = @ \cup {Join(rawCells, <<NUL>>)}] ELSE r,
                  cfg, rawCells, row, fuzzyKey(rawCells, r.sourceIdColIndex))

\* lines 866-868: the exact check
ExactCheck(r, cfg, rawCells, row, key) ==
  IF cfg.removeDuplicates /\ key \in r.seenHashes THEN r
  ELSE FuzzyCheck(IF cfg.removeDuplicates THEN [r EXCEPT !.seenHashes = @ \cup {key}] ELSE r,
                  cfg, rawCells, row, fuzzyKey(rawCells, r.sourceIdColIndex))

\* lines 864-879, then the output assembly
Deduplicate(r, cfg, rawCells, row) ==
  ExactCheck([r EXCEPT !.reached = Append(@, [raw |-> rawCells, row |-> row])],
             cfg, rawCells, row, dedupeKey(rawCells, r.sourceIdColIndex))

\* lines 742-750: an odd quote count pulls in the following lines
QuoteMerge(lines, li) ==
  IF countQuotes(lines[li + 1]) % 2 = 1 THEN MergeQuoted(lines, li, lines[li + 1], 0)
  ELSE [li |-> li, line |-> lines[li + 1]]

\* one iteration of the row loop, lines 735-920
ProcessRow(r, cfg) ==
  IF Trim(r.lines[r.li + 1]) = <<>> THEN [r EXCEPT !.li = @ + 1]
  ELSE
    Bind(QuoteMerge(r.lines, r.li), LAMBDA q :
    Bind(ReconcileColumns(r.lines, q.li, q.line, r.separator, Len(r.rawHeaders)), LAMBDA rec :
    Bind(StandardPass(cfg, rec.cells), LAMBDA std :
    Bind(AdvancedPass(cfg, r.rawHeaders, r.sourceIdColIndex, std.cells, r.numericColumns),
         LAMBDA adv :
    Bind([r EXCEPT
            !.li = rec.li + 1,
            !.totalOriginalRows = @ + 1,
            !.columnMismatchCount = IF rec.mismatch THEN @ + 1 ELSE @,
            !.logs = IF rec.mismatch /\ r.columnMismatchCount + 1 <= LOG_LIMIT
                     THEN Append(@, [kind |-> "mismatch", row |-> r.totalOriginalRows + 1])
                     ELSE @,
            !.totalFixedCells = @ + std.fixed + adv.fixed,
            !.numericColumns = adv.numericColumns,
            !.sources = Append(@, rec.source)], LAMBDA r1 :
      IF DroppedByFilter(cfg, adv.cells) THEN r1
      ELSE Deduplicate(r1, cfg, adv.cells, r.totalOriginalRows + 1))))))

\* a throw after the id of the row was taken (line 896) and before the row
\* is pushed (line 909)
ThrownLate(r, cfg, site) ==
  Bind(QuoteMerge(r.lines, r.li), LAMBDA q :
  Bind(ReconcileColumns(r.lines, q.li, q.line, r.separator, Len(r.rawHeaders)), LAMBDA rec :
    [r EXCEPT
       !.li = rec.li + 1,
       !.totalOriginalRows = @ + 1,
       !.idCounter = IF r.hasGeneratedId THEN @ + 1 ELSE @,
       !.logs = Append(@, [kind |-> "skipped", row |-> r.totalOriginalRows + 1]),
       !.sources = Append(@, rec.source),
       !.thrown = @ \cup {r.totalOriginalRows + 1}]))

\* one iteration of the row loop in which the try block throws, lines
\* 738-740 and 917-919.  No call of the try block throws on a string, so
\* the throw is an input: site "parse" is the parse of line 753, after the
\* quote merge; site "transform" is the cell transforms of lines 795-852,
\* after the column count was reconciled.  The row is counted before the
\* try, and the catch logs the warning; the loop goes on at the next line.
Thrown(r, cfg, site) ==
  Bind(QuoteMerge(r.lines, r.li), LAMBDA q :
  Bind(IF site = "parse"
       THEN [li |-> q.li, mismatch |-> FALSE, source |-> q.line]
       ELSE ReconcileColumns(r.lines, q.li, q.line, r.separator, Len(r.rawHeaders)),
       LAMBDA rec :
    [r EXCEPT
       !.li = rec.li + 1,
       !.totalOriginalRows = @ + 1,
       !.columnMismatchCount = IF rec.mismatch THEN @ + 1 ELSE @,
       !.logs = (IF rec.mismatch /\ r.columnMismatchCount + 1 <= LOG_LIMIT
                 THEN Append(@, [kind |-> "mismatch", row |-> r.totalOriginalRows + 1])
                 ELSE @)
                \o <<[kind |-> "skipped", row |-> r.totalOriginalRows + 1]>>,
       !.sources = Append(@, rec.source),
       !.thrown = @ \cup {r.totalOriginalRows + 1}]))

\* lines 922-925: the processing-progress call after a window
PeriodicProgress(r, f) ==
  IF r.totalOriginalRows % PROGRESS_ROWS = 0 /\ r.totalOriginalRows > 0
  THEN [r EXCEPT !.progress = Append(@, [kind |-> "processing",
                                          num |-> 50 * Len(f) + r.offset * 30, den |-> Len(f)])]
  ELSE r

\* lines 928-972: the last partial chunk, the statistics and the closing calls
Complete(r, cfg) ==
  Bind(IF Len(r.rowBuffer) > 0
       THEN Append(r.cleanedDataChunks, Join(r.rowBuffer, getEolChar(cfg.eol)))
       ELSE r.cleanedDataChunks, LAMBDA chunks :
  Bind(getAllDataRows(chunks, SAMPLE_ROWS, r.separator), LAMBDA sampleData :
    [r EXCEPT
       !.cleanedDataChunks = chunks,
       !.stats = [original |-> r.totalOriginalRows, cleaned |-> r.totalCleanedRows,
                  removed |-> r.totalOriginalRows - r.totalCleanedRows,
                  cols |-> Len(r.fileHeaders), fixed |-> r.totalFixedCells],
       !.progress = @ \o <<[kind |-> "types", num |-> 85, den |-> 1],
                           [kind |-> "complete", num |-> 100, den |-> 1]>>,
       !.sampleData = sampleData,
       !.columnTypes = detectColumnTypes(r.fileHeaders, sampleData),
       !.outliers = OutlierReport(cfg, r.numericColumns, r.rawHeaders),
       !.returned = TRUE]))

\* line 972: what processFile returns, without the column types
Result(r) ==
  [cleanedChunks |-> r.cleanedDataChunks, headers |-> r.fileHeaders, stats |-> r.stats,
   separator |-> r.separator]

\* the row loop of one window, and processFile from a state of its read loop
\* to its return, for a header that needs no random name
RECURSIVE RunRows(_, _)
RunRows(r, cfg) == IF r.li < Len(r.lines) THEN RunRows(ProcessRow(r, cfg), cfg) ELSE r

RECURSIVE RunToEnd(_, _, _, _)
RunToEnd(r, f, cfg, size) ==
  IF r.offset < Len(f)
  THEN RunToEnd(PeriodicProgress(RunRows(ReadWindow(r, f, cfg, size, <<>>), cfg), f),
                f, cfg, size)
  ELSE Complete(r, cfg)

(***************************************************************************)
(* The state machine                                                       *)
(***************************************************************************)
Read ==
  /\ pc = "loop"
  /\ run.offset < Len(file)
  /\ \E rnd \in [NeedsRandom(run, file, chunkSize) -> RandomSuffixes] :
       run' = ReadWindow(run, file, config, chunkSize, rnd)
  /\ pc' = "rows"
  /\ UNCHANGED <<file, config, chunkSize, host>>

Row ==
  /\ pc = "rows"
  /\ run.li < Len(run.lines)
  /\ run' = ProcessRow(run, config)
  /\ UNCHANGED <<file, config, chunkSize, host, pc>>

EndWindow ==
  /\ pc = "rows"
  /\ run.li >= Len(run.lines)
  /\ run' = PeriodicProgress(run, file)
  /\ pc' = "loop"
  /\ UNCHANGED <<file, config, chunkSize, host>>

Finish ==
  /\ pc = "loop"
  /\ run.offset >= Len(file)
  /\ run' = Complete(run, config)
  /\ pc' = "done"
  /\ UNCHANGED <<file, config, chunkSize, host>>

Next == Read \/ Row \/ EndWindow \/ Finish

\* downloadCSV, lines 108-140: the cleaned file is the chunks joined by ''
CleanedFile(chunks) == Join(chunks, <<>>)

\* at most this many runs in a row, each on the output of the one before
MaxPasses == 2

\* the cleaned file of a finished run is loaded and cleaned again with the
\* same configuration (App.tsx: handleFile, then startCleaning)
Rerun ==
  /\ pc = "done"
  /\ run.pass < MaxPasses
  /\ file' = CleanedFile(run.cleanedDataChunks)
  /\ run' = [InitRun EXCEPT !.pass = run.pass + 1]
  /\ pc' = "loop"
  /\ UNCHANGED <<config, chunkSize, host>>

NextRound == Next \/ Rerun

ThrowSites == {"parse", "transform"}

\* a row whose processing throws
RowThrows ==
  /\ pc = "rows"
  /\ run.li < Len(run.lines)
  /\ Trim(run.lines[run.li + 1]) # <<>>
  /\ \E site \in ThrowSites : run' = Thrown(run, config, site)
  /\ UNCHANGED <<file, config, chunkSize, host, pc>>

\* a failed read treated as an empty window
ReadFailsSkipping ==
  /\ pc = "loop"
  /\ run.offset < Len(file)
  /\ run' = [run EXCEPT !.readFailedAt = run.offset, !.offset = @ + chunkSize,
                         !.lines = <<>>, !.li = 0]
  /\ pc' = "rows"
  /\ UNCHANGED <<file, config, chunkSize, host>>

\* lines 673-674 and 975-982: the read of the next window fails, the promise
\* of readChunkAsText rejects, and the await of line 674 throws out of
\* processFile before offset is advanced and before any progress call
ReadFails ==
  /\ pc = "loop"
  /\ run.offset < Len(file)
  /\ run' = [run EXCEPT !.readFailedAt = run.offset]
  /\ pc' = "failed"
  /\ UNCHANGED <<file, config, chunkSize, host>>

NextFaulty == Next \/ RowThrows \/ ReadFails

\* line 946: the column types of a sample
Detect ==
  /\ pc = "sample"
  /\ run' = [run EXCEPT !.columnTypes = detectColumnTypes(run.fileHeaders, run.sampleData)]
  /\ pc' = "typed"
  /\ UNCHANGED <<file, config, chunkSize, host>>

NextTypes == Detect

\* lines 949-967: the outlier report of the samples collected
Report ==
  /\ pc = "outliers"
  /\ run' = [run EXCEPT !.outliers = OutlierReport(config, run.numericColumns, run.rawHeaders)]
  /\ pc' = "reported"
  /\ UNCHANGED <<file, config, chunkSize, host>>

NextOutliers == Report

\* lines 251-297: one line is parsed on its own
Parse ==
  /\ pc = "line"
  /\ run' = [run EXCEPT !.parsed = parseCSVLine(run.lines[1], run.separator)]
  /\ pc' = "parsed"
  /\ UNCHANGED <<file, config, chunkSize, host>>

NextParse == Parse

\* processFile is suspended and the host may run another task: at the read of
\* a window (line 674) and after the periodic yield before it (line 924),
\* and after a flush (line 915).  A flush is seen by its empty buffer, which
\* lasts until the next row is pushed, so the host is let in at the flush
\* yield and at the rows dropped right after it
AtYield ==
  \/ pc = "loop" /\ run.offset < Len(file)
  \/ pc = "rows" /\ run.rowBuffer = <<>> /\ run.totalCleanedRows > 0

\* a second call of processFile starts on the host's other file: it has
\* locals of its own (lines 634-663)
OtherStart ==
  /\ AtYield
  /\ host.otherPc = "idle"
  /\ host' = [host EXCEPT !.other = InitRun, !.otherPc = "loop"]
  /\ UNCHANGED <<file, config, chunkSize, pc, run>>

\* a variant in which the dedup set is shared by the two calls
OtherAdvanceShared ==
  /\ AtYield
  /\ host.otherPc = "loop"
  /\ host' = IF host.other.offset < Len(host.otherFile)
             THEN [host EXCEPT !.other =
                     PeriodicProgress(RunRows(ReadWindow(@, host.otherFile, config, chunkSize, <<>>),
                                              config), host.otherFile)]
             ELSE [host EXCEPT !.other = Complete(@, config), !.otherPc = "done"]
  /\ run' = [run EXCEPT !.seenHashes = @ \cup host'.other.seenHashes]
  /\ UNCHANGED <<file, config, chunkSize, pc>>

\* the second call runs one window, or its closing lines, while the first is
\* suspended
OtherAdvance ==
  /\ AtYield
  /\ host.otherPc = "loop"
  /\ host' = IF host.other.offset < Len(host.otherFile)
             THEN [host EXCEPT !.other =
                     PeriodicProgress(RunRows(ReadWindow(@, host.otherFile, config, chunkSize, <<>>),
                                              config), host.otherFile)]
             ELSE [host EXCEPT !.other = Complete(@, config), !.otherPc = "done"]
  /\ UNCHANGED <<file, config, chunkSize, pc, run>>

\* lines 60-74: storeResult, called with what a result r holds for the file
\* named name; now is the clock reading when the statement is generated
StoreResult(h, r, name, cfg, now) ==
  [h EXCEPT
     !.storedChunks = r.cleanedDataChunks,
     !.storedHeaders = r.fileHeaders,
     !.storedFileName = name,
     !.storedCreateSQL = generateCreateTable(cfg.tableName, r.fileHeaders, r.columnTypes,
                                             cfg.pkColumn, now),
     !.storedLoadSQL = [tableName |-> cfg.tableName, fileName |-> name, headers |-> r.fileHeaders],
     \* data.separator || ',': the separator is '' when no header line was read
     !.storedSeparator = IF r.isFirstChunk THEN COMMA ELSE r.separator]

\* the result of the second call is stored while the first is suspended
OtherStore ==
  /\ AtYield
  /\ host.otherPc = "done"
  /\ host' = [StoreResult(host, host.other, 2, config, host.clock) EXCEPT !.otherPc = "stored"]
  /\ UNCHANGED <<file, config, chunkSize, pc, run>>

NextYield == Next \/ OtherStart \/ OtherAdvance \/ OtherStore

\* the page can take an event: no task is running
PageIdle == pc \in {"idle", "stored", "shown"} \/ AtYield

\* App.tsx lines 84-120, for a file with an accepted extension
handleFile ==
  /\ PageIdle
  /\ \E f \in DOMAIN host.files :
       host' = [host EXCEPT !.selected = f, !.showResults = FALSE, !.showProgress = FALSE]
  /\ UNCHANGED <<file, config, chunkSize, pc, run>>

\* App.tsx lines 122-132
removeFile ==
  /\ PageIdle
  /\ host.selected # 0
  /\ host' = [host EXCEPT !.selected = 0, !.showResults = FALSE, !.showProgress = FALSE]
  /\ UNCHANGED <<file, config, chunkSize, pc, run>>

\* App.tsx lines 134-164: the button is disabled while a run is in flight
\* (line 430); the call of processFile captures the selected file
MaxRuns == 2
startCleaning ==
  /\ pc \in {"idle", "shown"}
  /\ host.selected # 0 /\ ~host.isProcessing
  /\ host.runs < MaxRuns
  /\ host' = [host EXCEPT !.isProcessing = TRUE, !.showProgress = TRUE, !.showResults = FALSE,
                          !.captured = host.selected, !.runs = @ + 1]
  /\ file' = host.files[host.selected]
  /\ run' = InitRun
  /\ pc' = "loop"
  /\ UNCHANGED <<config, chunkSize>>

\* App.tsx lines 172-191: processFile has returned; its result is stored and
\* put on display, for the file the call captured
Store ==
  /\ pc = "done"
  /\ host' = [StoreResult(host, run, host.captured, config, host.clock) EXCEPT
                !.stats = run.stats,
                !.resultHeaders = run.fileHeaders,
                !.resultColumnTypes = run.columnTypes,
                !.previewRows = getAllDataRows(run.cleanedDataChunks, PREVIEW_ROWS, run.separator),
                !.createSQLDisplay = generateCreateTable(config.tableName, run.fileHeaders,
                                                         run.columnTypes, config.pkColumn, host.clock),
                !.shownFor = host.captured]
  /\ pc' = "stored"
  /\ UNCHANGED <<file, config, chunkSize, run>>

\* App.tsx lines 191-198: 300 ms later the results are shown
Show ==
  /\ pc = "stored"
  /\ host' = [host EXCEPT !.showResults = TRUE, !.isProcessing = FALSE]
  /\ pc' = "shown"
  /\ UNCHANGED <<file, config, chunkSize, run>>

NextPage == Next \/ handleFile \/ removeFile \/ startCleaning \/ Store \/ Show

\* App.tsx line 173: a create-table statement is generated for the headers
\* and types at hand; the text returned and the clock reading of the call
\* are kept in host.statements
MaxCalls == 2
Generate ==
  /\ pc = "sql"
  /\ host' = [host EXCEPT !.statements = Append(@,
                [text |-> generateCreateTable(config.tableName, run.fileHeaders,
                                              run.columnTypes, config.pkColumn, host.clock),
                 at |-> host.clock])]
  /\ pc' = IF Len(host.statements) + 1 < MaxCalls THEN "sql" ELSE "generated"
  /\ UNCHANGED <<file, config, chunkSize, run>>

\* a millisecond passes on the host's clock
MaxClock == 2
Tick ==
  /\ pc = "sql"
  /\ host.clock < MaxClock
  /\ host' = [host EXCEPT !.clock = @ + 1]
  /\ UNCHANGED <<file, config, chunkSize, pc, run>>

NextSql == Generate \/ Tick

(***************************************************************************)
(* Inputs                                                                  *)
(***************************************************************************)
\* the configuration App.tsx builds with every switch off, standard mode
BaseConfig == [
  mode |-> "standard", eol |-> "LF", generateId |-> FALSE,
  tableName |-> <<"t">>, pkColumn |-> <<>>,
  removeDuplicates |-> FALSE, removeEmpty |-> FALSE, trimWhitespace |-> FALSE,
  normalizeValues |-> FALSE, fixEncoding |-> FALSE, fuzzyDuplicates |-> FALSE,
  validateEmail |-> FALSE, standardizePhone |-> FALSE, normalizeCase |-> FALSE,
  standardizeDate |-> FALSE, detectOutliers |-> FALSE, removeSpecialChars |-> FALSE,
  removeHtmlTags |-> FALSE, fixNumberFormats |-> FALSE, removeRowsWithEmptyValues |-> FALSE ]

\* the lines joined by LF, each line ended by LF
RECURSIVE Lines(_)
Lines(ls) == IF ls = <<>> THEN <<>> ELSE ls[1] \o <<LF>> \o Lines(Tail(ls))

\* all sequences over S of length 0..n
RECURSIVE SeqsUpTo(_, _)
SeqsUpTo(S, n) ==
  IF n = 0 THEN {<<>>}
  ELSE LET shorter == SeqsUpTo(S, n - 1)
       IN shorter \cup {Append(q, x) : q \in {t \in shorter : Len(t) = n - 1}, x \in S}

InitOn(files, configs, sizes) ==
  /\ file \in files
  /\ config \in configs
  /\ chunkSize \in sizes
  /\ pc = "loop"
  /\ run = InitRun
  /\ host = InitHost


\* at most this many data lines in a file
MaxRows == 3
\* the read windows tried: one narrower than a header line, one wider than any file
SMALL_WINDOW == 3
LARGE_WINDOW == 40

WindowSizes == {SMALL_WINDOW, LARGE_WINDOW}

FilesOf(headers, rows) ==
  {Lines(<<h>> \o body) : h \in headers, body \in SeqsUpTo(rows, MaxRows)}

\* headers without an id column, with one first, with one last (upper case),
\* and with a repeated and an empty name
IdHeaders == { <<"a",COMMA,"b">>, <<"i","d",COMMA,"a">>, <<"a",COMMA,"I","D">>, <<"a",COMMA,COMMA,"a">> }
\* well-formed, short, long, all-empty and blank lines
IdRows == { <<"x",COMMA,"y">>, <<"x">>, <<"x",COMMA,"y",COMMA,"z">>, <<COMMA>>, <<>> }

\* the empty file, and files whose last line has no terminator
OddFiles == { <<>>, <<"a",COMMA,"b">>, <<"a",COMMA,"b",LF,"x",COMMA,"y">> }

IdConfigs ==
  {[BaseConfig EXCEPT !.generateId = g, !.removeDuplicates = d, !.removeEmpty = e,
                      !.mode = IF e THEN "advanced" ELSE "standard",
                      !.normalizeCase = e, !.trimWhitespace = d]
     : g \in BOOLEAN, d \in BOOLEAN, e \in BOOLEAN}

Init == InitOn(FilesOf(IdHeaders, IdRows) \cup OddFiles, IdConfigs, WindowSizes)

Spec == Init /\ [][Next]_vars

\* duplicate-detection runs: a header with and without a source id column,
\* rows that differ in id only, in letter case only, and in spacing only
DupHeaders == { <<"i","d",COMMA,"n">>, <<"k",COMMA,"n">> }
DupRows == { <<"1",COMMA,"J","o">>, <<"2",COMMA,"J","o">>, <<"1",COMMA,"j","o">>,
               <<"2",COMMA,"J"," ","o">> }

DupConfigs ==
  {[BaseConfig EXCEPT !.generateId = g, !.removeDuplicates = d, !.fuzzyDuplicates = z,
                      !.mode = IF z THEN "advanced" ELSE "standard"]
     : g \in BOOLEAN, d \in BOOLEAN, z \in BOOLEAN}

InitDedup == InitOn(FilesOf(DupHeaders, DupRows), DupConfigs, WindowSizes)

SpecDedup == InitDedup /\ [][Next]_vars

\* quoted-cell runs: rows whose quoted cell holds a line break, first or last
QuoteHeaders == { <<"a",COMMA,"b">> }
QuoteRows == { <<"x",COMMA,"y">>,
               <<QUOTE,"p",LF,"q",QUOTE,COMMA,"y">>,
               <<"x",COMMA,QUOTE,"p",LF,"q",QUOTE>> }

QuoteConfigs == {[BaseConfig EXCEPT !.generateId = g] : g \in BOOLEAN}

InitQuote == InitOn(FilesOf(QuoteHeaders, QuoteRows), QuoteConfigs, WindowSizes)

SpecQuote == InitQuote /\ [][Next]_vars

\* phone runs: a phone column first and last, next to a source id column,
\* and a column whose name only contains "tel"; rows with ten-digit,
\* eleven-digit and seven-digit numbers in either column
PhoneHeaders == { <<"t","e","l",COMMA,"n","o","t","e">>, <<"n","o","t","e",COMMA,"t","e","l">>,
                  <<"i","d",COMMA,"t","e","l">>, <<"h","o","t","e","l",COMMA,"i","d">> }
PhoneRows == { <<"5","5","5","1","2","3","4","5","6","7",COMMA,"5","5","5","1","2","3","4","5","6","7">>,
               <<"x",COMMA,"1","5","5","5","1","2","3","4","5","6","7">>,
               <<"5","5","5","-","1","2","3","4",COMMA,"x">> }

PhoneConfigs ==
  {[BaseConfig EXCEPT !.generateId = g, !.standardizePhone = p,
                      !.mode = IF a THEN "advanced" ELSE "standard"]
     : g \in BOOLEAN, p \in BOOLEAN, a \in BOOLEAN}

InitPhone == InitOn(FilesOf(PhoneHeaders, PhoneRows), PhoneConfigs, WindowSizes)

SpecPhone == InitPhone /\ [][Next]_vars

\* round-trip runs, every switch off: cells with a quote character inside,
\* with the delimiter, with a line break, and cells whose value, once read,
\* is still wrapped in quote characters: "x" in quotes, and  x  in quotes
RoundHeaders == { <<"a",COMMA,"b">> }
RoundRows == { <<"x",COMMA,"y">>,
               <<QUOTE,"a",QUOTE,QUOTE,"b",QUOTE,COMMA,"y">>,
               <<QUOTE,"p",COMMA,"q",QUOTE,COMMA,"y">>,
               <<QUOTE,"p",LF,"q",QUOTE,COMMA,"y">>,
               <<QUOTE,QUOTE,QUOTE,QUOTE,QUOTE,"x",QUOTE,QUOTE,QUOTE,QUOTE,QUOTE,COMMA,"y">>,
               <<QUOTE,QUOTE,QUOTE," ","x"," ",QUOTE,QUOTE,QUOTE,COMMA,"y">> }

InitRound == InitOn(FilesOf(RoundHeaders, RoundRows), {BaseConfig}, WindowSizes)

SpecRound == InitRound /\ [][NextRound]_vars

\* the round-trip scenario of the spec: its input, the output it expects,
\* and its configuration among the ones that differ from it in one switch
ScenarioInput ==
  <<"N","a","m","e",COMMA,"E","m","a","i","l",LF,"J","o","h","n"," ","D","o","e",COMMA,"J","O","H","N","@","G","M","I","A","L",".","C","O","M",LF>>
ScenarioOutput ==
  <<"N","a","m","e",COMMA,"E","m","a","i","l",LF,"J","o","h","n"," ","D","o","e",COMMA,"j","o","h","n","@","g","m","a","i","l",".","c","o","m",LF>>

ScenarioConfig ==
  [BaseConfig EXCEPT !.mode = "advanced", !.validateEmail = TRUE, !.normalizeCase = TRUE]

ScenarioConfigs ==
  {[BaseConfig EXCEPT !.mode = IF a THEN "advanced" ELSE "standard",
                      !.validateEmail = v, !.normalizeCase = n]
     : a \in BOOLEAN, v \in BOOLEAN, n \in BOOLEAN}

InitScenario == InitOn({ScenarioInput}, ScenarioConfigs, WindowSizes)

SpecScenario == InitScenario /\ [][Next]_vars

\* runs with faults: a header with and without a source id column, rows of
\* the right length, equal rows, and a short row
FaultHeaders == { <<"a",COMMA,"b">>, <<"i","d",COMMA,"a">> }
FaultRows == { <<"x",COMMA,"y">>, <<"z",COMMA,"y">>, <<"x">> }

FaultConfigs ==
  {[BaseConfig EXCEPT !.generateId = g, !.removeDuplicates = d] : g \in BOOLEAN, d \in BOOLEAN}

InitFaulty == InitOn(FilesOf(FaultHeaders, FaultRows), FaultConfigs, WindowSizes)

SpecFaulty == InitFaulty /\ [][NextFaulty]_vars

\* the flags App.tsx offers in advanced mode only, lines 148-160
AdvancedFlags ==
  {"fuzzyDuplicates", "validateEmail", "standardizePhone", "normalizeCase", "standardizeDate",
   "detectOutliers", "removeSpecialChars", "removeHtmlTags", "fixNumberFormats",
   "removeRowsWithEmptyValues"}

\* the configuration with every advanced-only flag off
StandardOnly(cfg) == [k \in DOMAIN cfg |-> IF k \in AdvancedFlags THEN FALSE ELSE cfg[k]]

\* mode runs: processFile called in either mode with advanced-only flags on
\* and off, on rows that differ in letter case and spacing only and a row
\* with an empty cell, under a name column
ModeHeaders == { <<"k",COMMA,"n","a","m","e">> }
ModeRows == { <<"1",COMMA,"J","o">>, <<"2",COMMA,"J","o">>, <<"1",COMMA,"j","o">>,
              <<"2",COMMA,"J"," ","o">>, <<"3",COMMA>> }

ModeConfigs ==
  {[BaseConfig EXCEPT !.mode = IF a THEN "advanced" ELSE "standard",
                      !.fuzzyDuplicates = z, !.removeRowsWithEmptyValues = e,
                      !.normalizeCase = n, !.validateEmail = n]
     : a \in BOOLEAN, z \in BOOLEAN, e \in BOOLEAN, n \in BOOLEAN}

InitMode == InitOn(FilesOf(ModeHeaders, ModeRows), ModeConfigs, WindowSizes)

SpecMode == InitMode /\ [][Next]_vars

\* header runs: every header row of one to three names drawn from a, a_1
\* and b, over rows of one cell
HeaderNames == { <<"a">>, <<"a","_","1">>, <<"b">> }
MaxHeaderCells == 3
HeaderRows == { Join(names, <<COMMA>>) :
                  names \in {q \in SeqsUpTo(HeaderNames, MaxHeaderCells) : q # <<>>} }
CellRows == { <<"x">> }

HeaderConfigs == {[BaseConfig EXCEPT !.generateId = g] : g \in BOOLEAN}

InitHeaders == InitOn(FilesOf(HeaderRows, CellRows), HeaderConfigs, WindowSizes)

SpecHeaders == InitHeaders /\ [][Next]_vars

\* type-detection runs: columns of up to MaxRows cells around the limits of
\* the integer tiers, with empty cells and null tokens, and columns of up to
\* MaxSample cells made of dates, emails and other text
IntegerCells ==
  { <<"1">>, <<"2">>, <<"3">>, <<"1","2","7">>, <<"1","2","8">>, <<"-","1","2","8">>,
    <<"3","2","7","6","7">>, <<"3","2","7","6","8">>,
    <<"2","1","4","7","4","8","3","6","4","7">>, <<"2","1","4","7","4","8","3","6","4","8">>,
    <<>>, <<"-">> }

MaxSample == 10

DateCell == <<"2","0","2","0","-","0","1","-","1","5">>
EmailCell == <<"a","@","b",".","c","o">>
TextCell == <<"x">>

Repeat(cell, n) == [i \in 1..n |-> cell]

MixedColumns ==
  { Repeat(DateCell, d) \o Repeat(EmailCell, e) \o Repeat(TextCell, x) :
      d \in 0..MaxSample, e \in 0..MaxSample, x \in 0..MaxSample }

SampleColumns ==
  SeqsUpTo(IntegerCells, MaxRows) \cup {c \in MixedColumns : Len(c) <= MaxSample}

InitTypes ==
  /\ file = <<>>
  /\ config = BaseConfig
  /\ chunkSize = LARGE_WINDOW
  /\ host = InitHost
  /\ pc = "sample"
  /\ \E column \in SampleColumns :
       run = [InitRun EXCEPT !.fileHeaders = << <<"c">> >>,
                             !.sampleData = [i \in 1..Len(column) |-> <<column[i]>>]]

SpecTypes == InitTypes /\ [][NextTypes]_vars

\* outlier runs.  Reports on their own: one column of MIN_OUTLIER_SAMPLES - 1
\* to MaxOutlierSamples samples, made of the numbers -50, 1, 1.5 and 50 in
\* rising or falling order, and the column of the spec's scenario.  Whole
\* runs: files with numeric cells, cleaned with detectOutliers on
Number(n) == [num |-> n, den |-> 1]

OutlierValues == << Number(-50), Number(1), [num |-> 3, den |-> 2], Number(50) >>

MaxOutlierSamples == 11

Reversed(xs) == [i \in 1..Len(xs) |-> xs[Len(xs) + 1 - i]]

Rising(counts) ==
  Repeat(OutlierValues[1], counts[1]) \o Repeat(OutlierValues[2], counts[2])
    \o Repeat(OutlierValues[3], counts[3]) \o Repeat(OutlierValues[4], counts[4])

ScenarioSamples ==
  << Number(1), Number(2), Number(3), Number(4), Number(5), Number(6), Number(7), Number(8),
     Number(9), Number(1000) >>

OutlierColumns ==
  LET rising == { Rising(counts) : counts \in
                    { c \in [1..4 -> 0..MaxOutlierSamples] :
                        /\ c[1] + c[2] + c[3] + c[4] >= MIN_OUTLIER_SAMPLES - 1
                        /\ c[1] + c[2] + c[3] + c[4] <= MaxOutlierSamples } }
  IN rising \cup { Reversed(column) : column \in rising } \cup { ScenarioSamples }

OutlierHeaders == { <<"n",COMMA,"m">>, <<"i","d",COMMA,"n">> }
OutlierRows == { <<"1",COMMA,"2">>, <<"1","0","0","0",COMMA,"x">>,
                 <<"1",".","5",COMMA,"-","5","0">> }

OutlierConfigs ==
  {[BaseConfig EXCEPT !.mode = "advanced", !.detectOutliers = TRUE, !.generateId = g]
     : g \in BOOLEAN}

InitReport ==
  /\ file = <<>>
  /\ config \in OutlierConfigs
  /\ chunkSize = LARGE_WINDOW
  /\ host = InitHost
  /\ pc = "outliers"
  /\ \E column \in OutlierColumns :
       run = [InitRun EXCEPT !.rawHeaders = << <<"n">> >>,
                             !.numericColumns = [k \in {0} |-> column]]

InitOutliers ==
  \/ InitReport
  \/ InitOn(FilesOf(OutlierHeaders, OutlierRows), OutlierConfigs, WindowSizes)

SpecOutliers == InitOutliers /\ [][Next \/ NextOutliers]_vars

\* statements: up to MaxHeaderCells headers named a, id or nothing, the key
\* column unnamed, among the headers or not, types for all headers or none
SqlNames == { <<"a">>, <<"i","d">>, <<>> }
SqlKeys == { <<>>, <<"a">>, <<"i","d">>, <<"k">> }
SqlTags == { "int", "email", "other" }
SqlTypes == { [h \in D |-> tag] : D \in {SqlNames, {}}, tag \in SqlTags }

InitSql ==
  /\ file = <<>>
  /\ \E key \in SqlKeys : config = [BaseConfig EXCEPT !.pkColumn = key]
  /\ chunkSize = LARGE_WINDOW
  /\ host = InitHost
  /\ pc = "sql"
  /\ \E headers \in SeqsUpTo(SqlNames, MaxHeaderCells), types \in SqlTypes :
       run = [InitRun EXCEPT !.fileHeaders = headers, !.columnTypes = types]

SpecSql == InitSql /\ [][NextSql]_vars

\* two files that differ in the cells of the source id column only: a header
\* with the id column first or last, up to MaxIdRows rows with an empty or
\* filled data cell, and for each row two id cells from the empty cell, 1
\* and the null token NA; cleaned with generateId on under every combination
\* of the two filters, exact dedup, a standard and an advanced transform
MaxIdRows == 2
IdCells == { <<>>, <<"1">>, <<"N","A">> }
DataCells == { <<>>, <<"x">> }
IdFirst == { TRUE, FALSE }

IdLine(first, id, data) == IF first THEN id \o <<COMMA>> \o data ELSE data \o <<COMMA>> \o id

IdFile(first, ids, data) ==
  Lines(<<IdLine(first, <<"i","d">>, <<"a">>)>>
          \o [n \in 1..Len(data) |-> IdLine(first, ids[n], data[n])])

SlotConfigs ==
  {[BaseConfig EXCEPT !.generateId = TRUE, !.removeEmpty = e,
                      !.removeRowsWithEmptyValues = v, !.removeDuplicates = d,
                      !.normalizeValues = n, !.mode = m, !.normalizeCase = TRUE,
                      !.detectOutliers = TRUE]
     : e \in BOOLEAN, v \in BOOLEAN, d \in BOOLEAN, n \in BOOLEAN,
       m \in {"standard", "advanced"}}

InitSlot ==
  /\ config \in SlotConfigs
  /\ chunkSize \in WindowSizes
  /\ pc = "loop"
  /\ run = InitRun
  /\ \E first \in IdFirst, data \in SeqsUpTo(DataCells, MaxIdRows) :
       \E ids \in [1..Len(data) -> IdCells], others \in [1..Len(data) -> IdCells] :
         /\ file = IdFile(first, ids, data)
         /\ host = [InitHost EXCEPT !.otherFile = IdFile(first, others, data)]

SpecSlot == InitSlot /\ [][Next]_vars

\* texts of up to MaxChars characters from a, LF, CR and U+00E9, stored as
\* UTF-8 bytes and read in windows of 1 to SMALL_WINDOW bytes and in one
MaxChars == 4
TextChars == { "a", LF, CR, "U+00E9" }

RECURSIVE Utf8(_)
Utf8(text) ==
  IF text = <<>> THEN <<>>
  ELSE (IF Head(text) = "U+00E9" THEN <<"xC3", "xA9">> ELSE <<Head(text)>>) \o Utf8(Tail(text))

LineWindows == (1..SMALL_WINDOW) \cup {LARGE_WINDOW}

InitLines ==
  InitOn({Utf8(text) : text \in SeqsUpTo(TextChars, MaxChars)}, {BaseConfig}, LineWindows)

SpecLines == InitLines /\ [][Next]_vars

\* files separated by commas, semicolons, tabs and pipes, written back with
\* each of three line terminators
SampleHeaders == { <<"a",COMMA,"b">>, <<"a",";","b">>, <<"a",TAB,"b">>, <<"a","|","b">> }
SampleRows == { <<"x",COMMA,"y">>, <<"x",";","y">>, <<"x",TAB,"y">>, <<"x","|","y">>, <<"1">> }
SampleConfigs ==
  {[BaseConfig EXCEPT !.eol = e, !.generateId = g] : e \in {"LF", "CRLF", "NEL"}, g \in BOOLEAN}

InitSample == InitOn(FilesOf(SampleHeaders, SampleRows), SampleConfigs, WindowSizes)

SpecSample == InitSample /\ [][Next]_vars

\* lines of up to MaxLine characters from a, the quote, the comma and the
\* tab, parsed with the comma and with the tab as delimiter
MaxLine == 5
LineChars == { "a", QUOTE, COMMA, TAB }

InitParse ==
  /\ file = <<>>
  /\ config = BaseConfig
  /\ chunkSize = LARGE_WINDOW
  /\ host = InitHost
  /\ pc = "line"
  /\ \E line \in SeqsUpTo(LineChars, MaxLine), sep \in {COMMA, TAB} :
       run = [InitRun EXCEPT !.lines = <<line>>, !.separator = sep]

SpecParse == InitParse /\ [][NextParse]_vars

\* two calls of processFile in one host: files of up to MaxRows rows from two
\* rows, cleaned with exact dedup, with and without generated ids
YieldRows == { <<"x",COMMA,"y">>, <<"p",COMMA,"q">> }
YieldFiles == FilesOf({ <<"a",COMMA,"b">> }, YieldRows)
YieldConfigs ==
  {[BaseConfig EXCEPT !.removeDuplicates = TRUE, !.generateId = g] : g \in BOOLEAN}

InitYield ==
  /\ file \in YieldFiles
  /\ config \in YieldConfigs
  /\ chunkSize \in WindowSizes
  /\ pc = "loop"
  /\ run = InitRun
  /\ \E f \in YieldFiles : host = [InitHost EXCEPT !.otherFile = f]

SpecYield == InitYield /\ [][NextYield]_vars

\* the page with two files at hand, none selected and no run started
PageFiles == { <<"a",LF,"x",LF,"x",LF,"y",LF>>, <<"b",LF,"z",LF>> }

InitPage ==
  /\ file = <<>>
  /\ config \in {[BaseConfig EXCEPT !.generateId = g] : g \in BOOLEAN}
  /\ chunkSize \in WindowSizes
  /\ pc = "idle"
  /\ run = InitRun
  /\ \E f \in PageFiles, g \in PageFiles : host = [InitHost EXCEPT !.files = <<f, g>>]

SpecPage == InitPage /\ [][NextPage]_vars

\* runs under weak fairness of the steps of processFile: the host runs the
\* continuation of every read and every timer that completes (lines 674, 915
\* and 924), so a step that stays possible is eventually taken.  A step is
\* possible exactly in the read loop (Read or Finish, by the offset) and in
\* the row loop (Row or EndWindow, by the line index), and each changes pc
\* or li; the fairness condition is weak fairness of Next with that
\* enabling condition written out
InitLive ==
  \/ InitQuote
  \/ InitOn(FilesOf(IdHeaders, IdRows) \cup OddFiles, {BaseConfig}, WindowSizes)

Working == pc \in {"loop", "rows"}

Fairness == []<>~Working \/ []<><<Next>>_vars

SpecLive == InitLive /\ [][Next]_vars /\ Fairness

(***************************************************************************)
(* Properties                                                              *)
(***************************************************************************)
\* element p (1-based) of a sequence from which 0-based index k was removed
SkipIndex(p, k) == IF p <= k THEN p ELSE p + 1

\* C1: every row pushed to the row buffer has exactly as many cells as
\* fileHeaders, with and without generateId, with and without a source id
\* column, and for rows that were padded or truncated
C1_RowLength ==
  \A n \in DOMAIN run.emitted : Len(run.emitted[n].cells) = Len(run.fileHeaders)

\* a finished run that generated ids over a source id column and pushed rows
\* of which at least two had the wrong number of cells
C1_Witness ==
  /\ pc = "done"
  /\ run.hasGeneratedId /\ run.sourceIdColIndex >= 0
  /\ run.columnMismatchCount >= 2
  /\ Len(run.emitted) >= 2

\* C2: with generateId on and no source column named id, fileHeaders is "id"
\* followed by rawHeaders, the id cells of the pushed rows are 1, 2, ... in
\* push order, and idCounter - 1 is the number of rows pushed so far
C2_SequentialIds ==
  (config.generateId /\ ~run.isFirstChunk /\ FindIdIndex(run.rawHeaders) = -1) =>
    /\ run.fileHeaders = <<<<"i","d">>>> \o run.rawHeaders
    /\ \A n \in DOMAIN run.emitted : run.emitted[n].cells[1] = NatToString(n)
    /\ run.idCounter - 1 = Len(run.emitted)
    /\ run.totalCleanedRows = Len(run.emitted)

\* a finished run that numbered at least two rows with a dropped row between them
C2_Witness ==
  /\ pc = "done"
  /\ config.generateId /\ FindIdIndex(run.rawHeaders) = -1
  /\ \E n \in DOMAIN run.emitted :
       n + 1 \in DOMAIN run.emitted /\ run.emitted[n + 1].row > run.emitted[n].row + 1

\* C3: with generateId on and a source column named id at index k, fileHeaders
\* is "id" followed by rawHeaders without position k, and every pushed row is
\* the next id followed by its cells at every raw index but k, in raw order
C3_SourceIdReplaced ==
  (config.generateId /\ run.sourceIdColIndex >= 0) =>
    /\ run.rawHeaders[run.sourceIdColIndex + 1] = <<"i","d">>
    /\ Len(run.fileHeaders) = Len(run.rawHeaders)
    /\ run.fileHeaders[1] = <<"i","d">>
    /\ \A j \in 2..Len(run.fileHeaders) :
         run.fileHeaders[j] = run.rawHeaders[SkipIndex(j - 1, run.sourceIdColIndex)]
    /\ \A n \in DOMAIN run.emitted :
         /\ Len(run.emitted[n].cells) = Len(run.rawHeaders)
         /\ run.emitted[n].cells[1] = NatToString(n)
         /\ \A j \in 2..Len(run.rawHeaders) :
              run.emitted[n].cells[j] = run.emitted[n].raw[SkipIndex(j - 1, run.sourceIdColIndex)]

\* a finished run over a source whose id column is first, with two rows
\* pushed, one of them carrying a non-empty source id
C3_Witness ==
  /\ pc = "done"
  /\ config.generateId /\ run.sourceIdColIndex = 0
  /\ Len(run.emitted) >= 2
  /\ \E n \in DOMAIN run.emitted : run.emitted[n].raw[1] # <<>>

\* two rows with the same cells everywhere but at 0-based index k
SameOutside(a, b, k) ==
  /\ Len(a) = Len(b)
  /\ \A i \in 1..Len(a) : i - 1 # k => a[i] = b[i]

C5_FuzzyCollapse ==
  config.fuzzyDuplicates =>
    \A n \in DOMAIN run.reached :
      (\E e \in DOMAIN run.emitted : run.emitted[e].row = run.reached[n].row)
        <=> (\A m \in 1..(n - 1) :
               fuzzyKey(run.reached[m].raw, run.sourceIdColIndex)
                 # fuzzyKey(run.reached[n].raw, run.sourceIdColIndex))

\* a finished run with both checks on: a row, an exact copy of it, then a
\* row that differs from it in case or spacing only, and one row pushed
C5_Witness ==
  /\ pc = "done"
  /\ config.removeDuplicates /\ config.fuzzyDuplicates
  /\ Len(run.emitted) = 1
  /\ \E i, j, k \in DOMAIN run.reached :
       /\ i < j /\ j < k
       /\ run.reached[i].raw = run.reached[j].raw
       /\ run.reached[k].raw # run.reached[i].raw
       /\ fuzzyKey(run.reached[k].raw, run.sourceIdColIndex)
            = fuzzyKey(run.reached[i].raw, run.sourceIdColIndex)

\* the lines of a text, a line break inside a quoted cell not ending a line
RECURSIVE QuoteAwareLines(_, _, _)
QuoteAwareLines(text, line, inQuotes) ==
  IF text = <<>> THEN <<line>>
  ELSE IF Head(text) = LF /\ ~inQuotes THEN <<line>> \o QuoteAwareLines(Tail(text), <<>>, FALSE)
  ELSE QuoteAwareLines(Tail(text), Append(line, Head(text)),
                       IF Head(text) = QUOTE THEN ~inQuotes ELSE inQuotes)

\* the data rows of a file as written: every line after the header that is not blank
LogicalRows(f) == SelectSeq(Tail(QuoteAwareLines(f, <<>>, FALSE)), LAMBDA l : Trim(l) # <<>>)

\* C6 as stated: a quoted cell that spans two physical lines is merged into
\* one row before the column count is checked, so the finished run has no
\* column mismatch and has pushed each row as written, wherever the line
\* break falls relative to the read windows
C6_QuotedCellMerged ==
  pc = "done" =>
    /\ run.columnMismatchCount = 0
    /\ [n \in DOMAIN run.emitted |-> run.emitted[n].raw]
         = [n \in DOMAIN LogicalRows(file) |-> parseCSVLine(LogicalRows(file)[n], COMMA)]

\* a finished run that merged a two-line quoted cell read in one window
C6_Witness ==
  /\ pc = "done"
  /\ run.columnMismatchCount = 0
  /\ \E n \in DOMAIN run.emitted : \E i \in DOMAIN run.emitted[n].raw :
       Includes(run.emitted[n].raw[i], LF)

\* the data lines of a file that are not blank
NonBlankDataLines(f) ==
  IF f = <<>> THEN 0
  ELSE Cardinality({i \in 2..Len(SplitLines(f)) : Trim(SplitLines(f)[i]) # <<>>})

\* the lines of the texts of a sequence, in order
RECURSIVE LinesOfAll(_)
LinesOfAll(texts) ==
  IF texts = <<>> THEN <<>> ELSE SplitLines(Head(texts)) \o LinesOfAll(Tail(texts))

NonBlank(ls) == SelectSeq(ls, LAMBDA l : Trim(l) # <<>>)

\* the row filters and both duplicate checks are off and the file has no quote
ShapeOnly ==
  /\ ~config.removeEmpty /\ ~config.removeRowsWithEmptyValues
  /\ ~config.removeDuplicates /\ ~config.fuzzyDuplicates
  /\ ~Includes(file, QUOTE)

\* C7 (as the code has it): with the row filters and both duplicate checks
\* off and no quote character in the input, no data line is lost: every row
\* read is pushed; the non-blank data lines of the file are, in order, the
\* non-blank lines of the texts the rows were parsed from; and each row is
\* either one line, padded or truncated to the header count, or a line
\* joined with the lines after it into a text that has the header count
C7_LinesKept ==
  (pc = "done" /\ ShapeOnly /\ file # <<>>) =>
    /\ run.stats.cleaned = Len(run.sources)
    /\ Len(run.emitted) = Len(run.sources)
    /\ NonBlank(LinesOfAll(run.sources)) = NonBlank(Tail(SplitLines(file)))
    /\ \A n \in DOMAIN run.emitted :
         \/ run.emitted[n].raw = parseCSVLine(run.sources[n], run.separator)
         \/ /\ ~Includes(run.sources[n], LF)
            /\ Len(run.emitted[n].raw) = Len(run.rawHeaders)
            /\ \A i \in 1..Len(run.rawHeaders) :
                 run.emitted[n].raw[i]
                   = IF i <= Len(parseCSVLine(run.sources[n], run.separator))
                     THEN parseCSVLine(run.sources[n], run.separator)[i] ELSE <<>>

\* a finished run in which one row took in the line after it and another
\* row was padded or truncated
C7_Witness ==
  /\ pc = "done" /\ ShapeOnly
  /\ run.columnMismatchCount >= 1
  /\ \E n \in DOMAIN run.sources : Includes(run.sources[n], LF)

\* C7 as stated: with the row filters and both duplicate checks off and no
\* quote character in the input, every non-blank data line gives one row of
\* its own, so stats.cleaned is the number of non-blank data lines
C7_NoRowLost ==
  (pc = "done" /\ ShapeOnly) => run.stats.cleaned = NonBlankDataLines(file)

\* p <= q for two percents held as fractions
LeFrac(p, q) == p.num * q.den <= q.num * p.den

Percent(n) == [num |-> n, den |-> 1]

\* C8 as stated: the percents passed to onProgress never decrease within a run
C8_ProgressMonotone ==
  \A i, j \in DOMAIN run.progress : i < j => LeFrac(run.progress[i], run.progress[j])

\* C9 as stated: every percent is in 0..100, a read percent in 0..50 and a
\* processing percent in 50..80
C9_ProgressRange ==
  \A i \in DOMAIN run.progress :
    /\ LeFrac(Percent(0), run.progress[i]) /\ LeFrac(run.progress[i], Percent(100))
    /\ run.progress[i].kind = "read" => LeFrac(run.progress[i], Percent(50))
    /\ run.progress[i].kind = "processing" =>
         LeFrac(Percent(50), run.progress[i]) /\ LeFrac(run.progress[i], Percent(80))

\* C10 as stated: in every finished run chunk zero is the header chunk
C10_HeaderChunkFirst ==
  pc = "done" =>
    /\ Len(run.cleanedDataChunks) >= 1
    /\ run.cleanedDataChunks[1] = SerializeRow(run.fileHeaders) \o getEolChar(config.eol)

\* C11 as stated: every chunk of a finished run - the header chunk, every
\* flushed chunk and the last partial chunk - ends with the line terminator
\* of the configuration
C11_ChunksTerminated ==
  pc = "done" =>
    \A c \in DOMAIN run.cleanedDataChunks :
      EndsWith(run.cleanedDataChunks[c], getEolChar(config.eol))

\* the chunks the run pushed before it completed do end with the terminator:
\* a finished run with a header chunk and a flushed chunk and no row left over
C11_Witness ==
  /\ pc = "done"
  /\ Len(run.cleanedDataChunks) >= 2
  /\ run.rowBuffer = <<>>
  /\ \A c \in DOMAIN run.cleanedDataChunks :
       EndsWith(run.cleanedDataChunks[c], getEolChar(config.eol))

\* the raw index (1-based) whose cell is written at output position j
OriginOf(j) ==
  IF ~run.hasGeneratedId THEN j
  ELSE IF run.sourceIdColIndex = -1 THEN j - 1
  ELSE SkipIndex(j - 1, run.sourceIdColIndex)

\* the output positions that carry a cell of the source
CarriedPositions ==
  {j \in DOMAIN run.fileHeaders : ~run.hasGeneratedId \/ j > 1}

\* C12: with no other transform on, the cell written under a column name is
\* the phone format of the cell read when mode is advanced, standardizePhone
\* is on, the name matches the phone-name pattern and the cell is
\* phone-shaped, and is the cell read in every other case, with and without
\* the shift of the output columns by generateId
C12_PhoneByColumnName ==
  \A n \in DOMAIN run.emitted :
    LET before == parseCSVLine(run.sources[run.emitted[n].row], COMMA) IN
    \A j \in CarriedPositions :
      run.emitted[n].cells[j] =
        IF /\ config.mode = "advanced" /\ config.standardizePhone
           /\ isPhoneColumnName(run.fileHeaders[j])
           /\ looksLikePhone(before[OriginOf(j)])
        THEN standardizePhoneFn(before[OriginOf(j)])
        ELSE before[OriginOf(j)]

\* a finished advanced run with standardizePhone and generateId on that
\* pushed a row with a rewritten cell under a phone name and an untouched
\* phone-shaped cell under another name
C12_Witness ==
  /\ pc = "done"
  /\ config.mode = "advanced" /\ config.standardizePhone /\ run.hasGeneratedId
  /\ \E n \in DOMAIN run.emitted :
       LET before == parseCSVLine(run.sources[run.emitted[n].row], COMMA) IN
       /\ \E j \in CarriedPositions :
            /\ isPhoneColumnName(run.fileHeaders[j])
            /\ run.emitted[n].cells[j] # before[OriginOf(j)]
       /\ \E j \in CarriedPositions :
            /\ ~isPhoneColumnName(run.fileHeaders[j])
            /\ looksLikePhone(run.emitted[n].cells[j])
            /\ run.emitted[n].cells[j] = before[OriginOf(j)]

\* C13 as stated: a run on the cleaned file of a run with the same
\* configuration, every switch off, gives that cleaned file again
C13_Idempotent ==
  (pc = "done" /\ run.pass > 1) => CleanedFile(run.cleanedDataChunks) = file

\* the cells for which it does hold: a second run that gave its input again
\* for a file with a quote character inside a cell and a delimiter in a cell
C13_Witness ==
  /\ pc = "done" /\ run.pass > 1
  /\ CleanedFile(run.cleanedDataChunks) = file
  /\ \E n \in DOMAIN run.emitted : Includes(run.emitted[n].cells[1], QUOTE)
  /\ \E n \in DOMAIN run.emitted : Includes(run.emitted[n].cells[1], COMMA)

\* C14 as stated: the scenario input, cleaned in advanced mode with email
\* repair and case normalization on, gives exactly the scenario output
C14_Scenario ==
  (pc = "done" /\ file = ScenarioInput /\ config = ScenarioConfig) =>
    CleanedFile(run.cleanedDataChunks) = ScenarioOutput

\* the cells of the scenario are as expected: the run pushed one row, the
\* name in title case and the email repaired and in lower case
C14_Witness ==
  /\ pc = "done" /\ file = ScenarioInput /\ config = ScenarioConfig
  /\ Len(run.emitted) = 1
  /\ run.emitted[1].cells = << <<"J","o","h","n"," ","D","o","e">>,
                               <<"j","o","h","n","@","g","m","a","i","l",".","c","o","m">> >>

\* C15: a row whose processing throws pushes no output row and takes no id
\* (the ids of the pushed rows stay 1, 2, ... without a gap), has its warning
\* in the log, and does not stop the run: when the reads succeed the run
\* completes and returns, the row is counted in stats.original and not in
\* stats.cleaned, hence in stats.removed, and every non-blank data line of
\* the file is part of the text of some row the loop went through
C15_ThrownRowSkipped ==
  /\ \A n \in DOMAIN run.emitted : run.emitted[n].row \notin run.thrown
  /\ run.hasGeneratedId =>
       /\ \A n \in DOMAIN run.emitted : run.emitted[n].cells[1] = NatToString(n)
       /\ run.idCounter - 1 = Len(run.emitted)
  /\ \A t \in run.thrown :
       \E k \in DOMAIN run.logs : run.logs[k].kind = "skipped" /\ run.logs[k].row = t
  /\ run.readFailedAt = -1 => pc \in {"loop", "rows", "done"}
  /\ pc = "done" =>
       /\ run.returned
       /\ run.thrown \subseteq 1..run.stats.original
       /\ run.stats.cleaned = Len(run.emitted)
       /\ run.stats.removed = run.stats.original - run.stats.cleaned
       /\ run.stats.removed >= Cardinality(run.thrown)
       /\ NonBlank(LinesOfAll(run.sources)) = NonBlank(Tail(SplitLines(file)))

\* a finished run with generated ids, read in narrow windows, in which a row
\* threw and rows of the same and of later windows were pushed after it
C15_Witness ==
  /\ pc = "done" /\ run.returned
  /\ run.hasGeneratedId /\ chunkSize = SMALL_WINDOW
  /\ \E t \in run.thrown :
       /\ t + 1 \notin run.thrown
       /\ \E n \in DOMAIN run.emitted : run.emitted[n].row = t + 1
       /\ \E n \in DOMAIN run.emitted : run.emitted[n].row = t + 2

\* C16: once the read of a window has failed, processFile has rejected: it
\* stands where the read failed, has returned no result, has made no call of
\* the type-detection or completion progress, has set no statistics, and has
\* read no further window
C16_ReadFailureAborts ==
  run.readFailedAt >= 0 =>
    /\ pc = "failed"
    /\ ~run.returned
    /\ run.offset = run.readFailedAt
    /\ \A k \in DOMAIN run.progress : run.progress[k].kind \notin {"types", "complete"}
    /\ run.stats = InitRun.stats

\* a read failed after an earlier window had already pushed chunks
C16_Witness ==
  /\ pc = "failed"
  /\ run.readFailedAt > 0
  /\ Len(run.cleanedDataChunks) >= 2

Distinct(xs) == \A i \in DOMAIN xs : \A j \in DOMAIN xs : i # j => xs[i] # xs[j]

\* C18 as stated: once the header row is processed, the names of rawHeaders
\* are pairwise distinct, and so are those of fileHeaders
C18_DistinctHeaders ==
  ~run.isFirstChunk => Distinct(run.rawHeaders) /\ Distinct(run.fileHeaders)

\* the suffixes do separate repeated names when no column already carries a
\* suffixed name: a header row a,a,a became a, a_1, a_2
C18_Witness ==
  /\ ~run.isFirstChunk
  /\ run.rawHeaders = << <<"a">>, <<"a","_","1">>, <<"a","_","2">> >>
  /\ SplitLines(file)[1] = <<"a",COMMA,"a",COMMA,"a">>

\* the tier the limits 128, 32768 and 2^31 give the integers of IntegerCells,
\* as a rank: 1 tinyint, 2 smallint, 3 int, 4 bigint
TierRank(v) ==
  CASE v \in { <<"1">>, <<"2">>, <<"3">>, <<"1","2","7">> } -> 1
    [] v \in { <<"1","2","8">>, <<"-","1","2","8">>, <<"3","2","7","6","7">> } -> 2
    [] v \in { <<"3","2","7","6","8">>, <<"2","1","4","7","4","8","3","6","4","7">> } -> 3
    [] OTHER -> 4

TierNames == <<"tinyint", "smallint", "int", "bigint">>

\* the only column of the sample, and its cells that are neither empty nor a null token
SampleType == run.columnTypes[<<"c">>]
SampleValues == ColumnValues(run.sampleData, 1)

\* C19: a column whose non-null values are all integer-shaped gets the tier
\* of its largest absolute value - tinyint below 128, smallint below 32768,
\* int below 2^31, bigint from there on - and a column without any non-null
\* value is varchar
C19_IntegerTiers ==
  pc = "typed" =>
    IF SampleValues = <<>> THEN SampleType = "varchar"
    ELSE (\A i \in 1..Len(SampleValues) : SampleValues[i] \in IntegerCells) =>
           \E i \in 1..Len(SampleValues) :
             /\ \A j \in 1..Len(SampleValues) : TierRank(SampleValues[j]) <= TierRank(SampleValues[i])
             /\ SampleType = TierNames[TierRank(SampleValues[i])]

\* the column "1", "2", "3" was typed tinyint
C19_Witness ==
  /\ pc = "typed"
  /\ run.sampleData = << <<<<"1">>>>, <<<<"2">>>>, <<<<"3">>>> >>
  /\ SampleType = "tinyint"

\* C20 as stated: a column that is not all-integer, all-decimal or
\* all-boolean is date when at least 7 in 10 of its non-null values are valid
\* dates, and otherwise email when at least 7 in 10 look like emails
C20_InclusiveThreshold ==
  (/\ pc = "typed"
   /\ SampleValues # <<>>
   /\ ~All(SampleValues, IsIntegerShape)
   /\ ~All(SampleValues, IsDecimalShape)
   /\ ~All(SampleValues, LAMBDA v : toLowerCase(v) \in BoolTokens)) =>
    IF Count(SampleValues, isValidDate) * 10 >= Len(SampleValues) * 7
    THEN SampleType = "date"
    ELSE IF Count(SampleValues, looksLikeEmail) * 10 >= Len(SampleValues) * 7
    THEN SampleType = "email"
    ELSE SampleType \notin {"date", "email"}

\* above the threshold the types are given: 8 dates in 10 values
C20_Witness ==
  /\ pc = "typed"
  /\ Len(SampleValues) = 10
  /\ Count(SampleValues, isValidDate) = 8
  /\ SampleType = "date"

\* the sample x of a column with no more than k samples below it and more
\* than k samples not above it: the element at 0-based place k of the
\* samples in rising order
RankValue(values, k) ==
  CHOOSE x \in {values[i] : i \in 1..Len(values)} :
    /\ Cardinality({i \in 1..Len(values) : values[i].num * x.den < x.num * values[i].den}) <= k
    /\ Cardinality({i \in 1..Len(values) : values[i].num * x.den <= x.num * values[i].den}) > k

\* v < q1 - 1.5 * (q3 - q1)  or  v > q3 + 1.5 * (q3 - q1),  on whole numbers
\* after multiplying through by 2 and by the three denominators
OutsideFences(v, q1, q3) ==
  LET V == v.num * q1.den * q3.den
      A == q1.num * v.den * q3.den
      B == q3.num * v.den * q1.den
  IN 2 * V < 2 * A - 3 * (B - A) \/ 2 * V > 2 * B + 3 * (B - A)

ExpectedOutliers(values) ==
  Cardinality({i \in 1..Len(values) :
     OutsideFences(values[i], RankValue(values, Len(values) \div 4),
                   RankValue(values, (3 * Len(values)) \div 4))})

\* the count reported for the column of 0-based index k, 0 when none is
ReportedOutliers(k) ==
  IF \E e \in DOMAIN run.outliers : run.outliers[e].colIdx = k
  THEN run.outliers[CHOOSE e \in DOMAIN run.outliers : run.outliers[e].colIdx = k].count
  ELSE 0

\* C21: with detectOutliers on, a column with at least 10 samples is
\* reported with the number of its samples below Q1 - 1.5 IQR or above
\* Q3 + 1.5 IQR, Q1 and Q3 the samples at places floor(n/4) and floor(3n/4)
\* in rising order, and under its own name; a column with fewer than 10
\* samples or with no such sample is not reported
C21_OutlierCount ==
  (pc \in {"reported", "done"} /\ config.detectOutliers) =>
    /\ \A k \in DOMAIN run.numericColumns :
         ReportedOutliers(k) =
           IF Len(run.numericColumns[k]) >= 10
           THEN ExpectedOutliers(run.numericColumns[k]) ELSE 0
    /\ \A e \in DOMAIN run.outliers :
         /\ run.outliers[e].colIdx \in DOMAIN run.numericColumns
         /\ run.outliers[e].count > 0
         /\ run.outliers[e].name = run.rawHeaders[run.outliers[e].colIdx + 1]
         /\ \A d \in DOMAIN run.outliers : run.outliers[d].colIdx = run.outliers[e].colIdx => d = e

\* the scenario: of the samples 1, ..., 9, 1000 one is reported, and 1000 is
\* the only sample outside the fences
C21_Witness ==
  /\ pc = "reported"
  /\ run.numericColumns[0] = ScenarioSamples
  /\ run.outliers = << [colIdx |-> 0, name |-> <<"n">>, count |-> 1] >>
  /\ \A i \in 1..10 :
       OutsideFences(ScenarioSamples[i], Number(3), Number(8)) <=> i = 10

\* s.split(c) of a long text, by the places of c: piece k starts after the
\* (k-1)-th c and ends before the k-th
SplitAt(s, c) ==
  LET breaks == {i \in 1..Len(s) : s[i] = c}
      before(i) == Cardinality({b \in breaks : b < i})
      startOf(k) == IF k = 1 THEN 1 ELSE 1 + CHOOSE b \in breaks : before(b) = k - 2
      endOf(k) == IF k = Cardinality(breaks) + 1 THEN Len(s)
                  ELSE (CHOOSE b \in breaks : before(b) = k - 1) - 1
  IN [k \in 1..(Cardinality(breaks) + 1) |-> SubSeq(s, startOf(k), endOf(k))]

\* the column definitions of a statement: its lines that open with four
\* spaces and a grave accent, without the comma that ends all but the last
DefLines(sql) ==
  LET opens(l) == Len(l) >= 5 /\ SubSeq(l, 1, 5) = <<" "," "," "," ",BACKTICK>>
      bare(l) == IF l[Len(l)] = COMMA THEN SubSeq(l, 1, Len(l) - 1) ELSE l
      lines == SplitAt(sql, LF)
  IN [i \in 1..Len(SelectSeq(lines, opens)) |-> bare(SelectSeq(lines, opens)[i])]

\* the name a definition encloses in grave accents
DefName(def) == SplitAt(def, BACKTICK)[2]

DefHasKey(def) == EndsWith(def, <<"P","R","I","M","A","R","Y"," ","K","E","Y">>)

\* the definitions of sql are those of headers in order, after one more for
\* key when added; the definitions that carry the primary-key clause are the
\* added one and those of the headers named key
DefsMatch(sql, headers, key, added) ==
  LET defs == DefLines(sql)
      off == IF added THEN 1 ELSE 0
  IN /\ Len(defs) = Len(headers) + off
     /\ \A i \in 1..Len(headers) :
          /\ DefName(defs[off + i]) = headers[i]
          /\ DefHasKey(defs[off + i]) <=> headers[i] = key
     /\ added => DefName(defs[1]) = key /\ DefHasKey(defs[1])

KeyAmongHeaders == \E i \in 1..Len(run.fileHeaders) : run.fileHeaders[i] = config.pkColumn

\* C22 as stated: one definition per header in header order, and one more
\* in front exactly when the key name is not among the headers, the empty
\* name included
C22_KeyAddedWhenAbsent ==
  \A s \in DOMAIN host.statements :
    DefsMatch(host.statements[s].text, run.fileHeaders, config.pkColumn, ~KeyAmongHeaders)

\* C22: one definition per header in header order, and one more in front
\* exactly when the key name is not empty and not among the headers; the
\* primary-key clause is carried by the added definition and by the
\* definitions of the headers named as the key, and by no other
C22_KeyAddedWhenNamedAndAbsent ==
  \A s \in DOMAIN host.statements :
    DefsMatch(host.statements[s].text, run.fileHeaders, config.pkColumn,
              config.pkColumn # <<>> /\ ~KeyAmongHeaders)

\* a statement for two headers and no key name: two definitions, no clause
C22_Witness ==
  /\ host.statements # <<>>
  /\ config.pkColumn = <<>>
  /\ run.fileHeaders = << <<"a">>, <<"i","d">> >>
  /\ Len(DefLines(host.statements[1].text)) = 2
  /\ \A d \in 1..2 : ~DefHasKey(DefLines(host.statements[1].text)[d])

\* the second line of a statement: the comment that carries the date
DateLine(sql) == SplitAt(sql, LF)[2]
Undated(sql) ==
  LET lines == SplitAt(sql, LF) IN <<lines[1]>> \o SubSeq(lines, 3, Len(lines))

\* C23 as stated: two calls with equal arguments return the same text
C23_SameText ==
  \A s, t \in DOMAIN host.statements : host.statements[s].text = host.statements[t].text

\* C23: the text is a function of the arguments and the clock reading of
\* the call: its second line is the comment "-- Date: " with the reading in
\* ISO form, two calls with equal arguments return texts that are equal on
\* every other line, and equal texts when made at the same reading
C23_SameTextButDate ==
  \A s, t \in DOMAIN host.statements :
    /\ DateLine(host.statements[s].text) =
         <<"-","-"," ","D","a","t","e",":"," ">> \o toISOString(host.statements[s].at)
    /\ Undated(host.statements[s].text) = Undated(host.statements[t].text)
    /\ host.statements[s].at = host.statements[t].at
         => host.statements[s].text = host.statements[t].text

\* two calls a millisecond apart
C23_Witness ==
  /\ Len(host.statements) = 2
  /\ host.statements[1].at < host.statements[2].at
  /\ run.fileHeaders # <<>>

\* the run of processFile on the host's other file, same config and window
OtherRun == RunToEnd(InitRun, host.otherFile, config, chunkSize)

\* which rows were kept: the ordinals of the rows pushed, in order
KeptRows(r) == [n \in DOMAIN r.emitted |-> r.emitted[n].row]

C25_LinesWindowFree ==
  pc = "done" => NonBlank(run.handed) = NonBlank(SplitLines(readChunkAsText(file)))

\* a CRLF pair with CR the last byte of one window and LF the first of the
\* next, and a last line without a terminator: both lines are handed whole, once
C25_Witness ==
  /\ pc = "done"
  /\ file = <<"a", CR, LF, "a">> /\ chunkSize = 2
  /\ NonBlank(run.handed) = << <<"a">>, <<"a">> >>

\* C26: the sample of a finished run is its first SAMPLE_ROWS emitted rows
\* (all of them when there are fewer), cell for cell
C26_SampleIsEmitted ==
  pc = "done" =>
    /\ Len(run.sampleData) = Min(SAMPLE_ROWS, Len(run.emitted))
    /\ \A n \in DOMAIN run.sampleData :
         n \in DOMAIN run.emitted /\ run.sampleData[n] = run.emitted[n].cells

\* a comma-separated file written back with LF: the sample is the first
\* SAMPLE_ROWS of three emitted rows
C26_Witness ==
  /\ pc = "done"
  /\ run.separator = COMMA /\ config.eol = "LF"
  /\ Len(run.emitted) = 3
  /\ run.sampleData = [n \in 1..SAMPLE_ROWS |-> run.emitted[n].cells]

\* what a two-state scanner does with each character of a line: "open" and
\* "close" for the quotes that switch the state, "literal" and "second" for
\* the two quotes of a doubled quote read while quoted, "quoted" for any other
\* character read while quoted, "delim" for a delimiter read while unquoted
\* and "text" for the rest
RECURSIVE Roles(_, _, _, _)
Roles(line, sep, i, quoted) ==
  IF i > Len(line) THEN <<>>
  ELSE IF quoted /\ line[i] = QUOTE /\ i < Len(line) /\ line[i + 1] = QUOTE
  THEN <<"literal", "second">> \o Roles(line, sep, i + 2, TRUE)
  ELSE IF line[i] = QUOTE THEN <<IF quoted THEN "close" ELSE "open">> \o Roles(line, sep, i + 1, ~quoted)
  ELSE IF quoted THEN <<"quoted">> \o Roles(line, sep, i + 1, TRUE)
  ELSE <<IF line[i] = sep THEN "delim" ELSE "text">> \o Roles(line, sep, i + 1, FALSE)

\* the places of line that belong to cell k: after k - 1 delimiters read
\* while unquoted and not one of them
CellPlaces(line, roles, k) ==
  {i \in 1..Len(line) :
     /\ roles[i] # "delim"
     /\ Cardinality({d \in 1..(i - 1) : roles[d] = "delim"}) = k - 1}

ParsedLine == run.lines[1]
ParsedRoles == Roles(ParsedLine, run.separator, 1, FALSE)

\* C27 as stated: the cells returned are one more than the delimiters read
\* while unquoted; a returned cell holds as many delimiter characters as were
\* read while quoted in its part of the line, and as many quote characters
\* as doubled quotes were read while quoted there
C27_ScannerCells ==
  pc = "parsed" =>
    /\ Len(run.parsed) = 1 + Cardinality({i \in 1..Len(ParsedLine) : ParsedRoles[i] = "delim"})
    /\ \A k \in DOMAIN run.parsed :
         /\ CountChar(run.parsed[k], run.separator) =
              Cardinality({i \in CellPlaces(ParsedLine, ParsedRoles, k) :
                             ParsedRoles[i] = "quoted" /\ ParsedLine[i] = run.separator})
         /\ CountChar(run.parsed[k], QUOTE) =
              Cardinality({i \in CellPlaces(ParsedLine, ParsedRoles, k) :
                             ParsedRoles[i] = "literal"})

\* the number of cells is the part of C27 the code keeps
C27_CellCount ==
  pc = "parsed" =>
    Len(run.parsed) = 1 + Cardinality({i \in 1..Len(ParsedLine) : ParsedRoles[i] = "delim"})

\* a line of one quoted cell that holds a delimiter and a doubled quote: the
\* cell returned is the delimiter and one quote
C27_Witness ==
  /\ pc = "parsed"
  /\ run.separator = COMMA
  /\ ParsedLine = <<QUOTE, COMMA, QUOTE, QUOTE, QUOTE>>
  /\ run.parsed = << <<COMMA, QUOTE>> >>

\* C28: whatever a second call of processFile and storeResult did while the
\* run was suspended, the finished run holds what the run on its own holds:
\* chunks, rows pushed and their order, ids, dedup sets, samples and stats
C28_YieldsChangeNothing ==
  pc = "done" => run = RunToEnd(InitRun, file, config, chunkSize)

\* a run that dropped a duplicate and pushed id 2 finished after a second call
\* had seen one of its rows, pushed rows of its own and had its result stored
C28_Witness ==
  /\ pc = "done" /\ config.generateId
  /\ host.otherPc = "stored" /\ host.storedFileName = 2
  /\ Len(run.emitted) = 2 /\ run.stats.removed = 1
  /\ host.other.emitted # <<>>
  /\ host.other.seenHashes \cap run.seenHashes # {}
  /\ host.other.seenHashes # run.seenHashes

\* C29 as stated: whenever results are shown, a file is selected and the
\* values on display and the stored artifacts were computed from it
C29_ResultsOfSelectedFile ==
  host.showResults =>
    /\ host.selected # 0
    /\ host.shownFor = host.selected
    /\ host.storedFileName = host.selected

\* a run that nothing interrupted: its results are shown for the file that is
\* still selected
C29_Witness ==
  /\ host.showResults
  /\ host.selected = 1 /\ host.shownFor = 1 /\ host.storedFileName = 1
  /\ host.stats = run.stats /\ host.stats.original > 0

\* C30: every window read moves the offset up, every iteration of the row
\* loop moves the line index up and not past the lines of the window, and
\* the run reaches its completion call and returns
C30_Terminates ==
  /\ [][(pc = "loop" /\ pc' = "rows") => run'.offset > run.offset]_vars
  /\ [][(pc = "rows" /\ pc' = "rows") => run'.li > run.li /\ run'.li <= Len(run.lines)]_vars
  /\ <>(/\ pc = "done" /\ run.returned
        /\ run.progress[Len(run.progress)].kind = "complete")

\* a finished run over a file with a quoted line break that was merged
C30_Witness ==
  /\ pc = "done" /\ run.returned
  /\ Includes(file, QUOTE)
  /\ run.stats.original > 0
  /\ run.stats.original < NonBlankDataLines(file)

=============================================================================
